---- MODULE Spec2Model ----
(***************************************************************************)
(* Travel_Back: the location-resolution pipeline.                          *)
(*                                                                         *)
(* Two deployed iterations of the service are modelled:                    *)
(*   "job"  - src/server.js lines 1-711: POST /api/locate creates a job,   *)
(*            runLocateJob runs reverse geocode -> widening-radius POI     *)
(*            queries -> model, GET /api/locate_result polls it;           *)
(*   "sync" - src/unnamed/part_000: POST /api/locate runs the budgeted     *)
(*            parallel geo context, the model and one optional repair      *)
(*            call inside the request.                                     *)
(* One process runs one iteration: Init chooses which (variable deployed). *)
(* POST /api/chat, which the iterations share, is run on its own ("chat"). *)
(* So is fetchNearbyPois ("poi"), on answers larger than the pipelines'.   *)
(*                                                                         *)
(* JavaScript runs a handler to its next await without interleaving, so    *)
(* every action is one such run: from the event that resumes the code to   *)
(* the next await (or the end) of the handler.                             *)
(*                                                                         *)
(* Values.  Text that the code inspects (POI names, candidate names, the   *)
(* "why" of a candidate) is a sequence of one-character strings; text it   *)
(* only passes on is a TLA+ string.  A JSON object is a record whose       *)
(* DOMAIN holds the fields that are present.  JS null/undefined is Null in *)
(* a string slot and JSNull in an object slot.                             *)
(***************************************************************************)
EXTENDS Integers, Sequences, FiniteSets, TLC

\* ------------------------------------------------------------------ bounds
MaxJobs == 1        \* jobs created in one run (job iteration)
MaxReqs == 1        \* locate requests in one run (sync iteration)
MaxTicks == 4       \* clock ticks in one run
TickMs == 300000    \* milliseconds the clock advances per tick
MaxCacheReqs == 2   \* locate requests in one run of the cache scenario
MaxCacheTicks == 3  \* clock ticks in one run of the cache scenario
MaxChats == 2       \* chat requests in one run of the chat scenario
MaxElems == 3       \* elements drawn freely in one answer of the POI scenario
MaxSearches == 1    \* calls of fetchNearbyPois in one run of the POI scenario
MaxPairJobs == 2    \* jobs in flight together in one run of the pair scenario
MaxDebugReqs == 1   \* requests of the /debug endpoints in one run of the debug scenario
MaxPhotoChats == 1  \* chat requests in one run of the photo-context scenario

\* ------------------------------------------------------- program constants
JOB_TTL_MS == 900000
OVERPASS_RADIUS_M == 1200
POI_TARGET_COUNT == 8
POI_CAP == 25
PROMPT_POIS == 20
SYNC_RADIUS_M == 1500
TRACE_VIEW == 200
GEO_TTL_MS == 600000
PHOTO_TTL_MS == 600000

Null == "<null>"
JSNull == [null |-> TRUE]

\* ------------------------------------------------------------------- text
Lower(ch) ==
  CASE ch = "A" -> "a" [] ch = "B" -> "b" [] ch = "C" -> "c" [] ch = "D" -> "d"
    [] ch = "E" -> "e" [] ch = "F" -> "f" [] ch = "G" -> "g" [] ch = "H" -> "h"
    [] ch = "I" -> "i" [] ch = "J" -> "j" [] ch = "K" -> "k" [] ch = "L" -> "l"
    [] ch = "M" -> "m" [] ch = "N" -> "n" [] ch = "O" -> "o" [] ch = "P" -> "p"
    [] ch = "Q" -> "q" [] ch = "R" -> "r" [] ch = "S" -> "s" [] ch = "T" -> "t"
    [] ch = "U" -> "u" [] ch = "V" -> "v" [] ch = "W" -> "w" [] ch = "X" -> "x"
    [] ch = "Y" -> "y" [] ch = "Z" -> "z" [] OTHER -> ch

\* String.prototype.toLowerCase
ToLowerCase(s) == [i \in 1..Len(s) |-> Lower(s[i])]

\* String.prototype.includes: the empty string is included in every string
Includes(s, t) ==
  \E i \in 1..(Len(s) - Len(t) + 1) : SubSeq(s, i, i + Len(t) - 1) = t

\* Array.prototype.slice(0, n)
Slice0(s, n) == SubSeq(s, 1, IF Len(s) < n THEN Len(s) ELSE n)

\* Array.prototype.slice(-n), for n > 0
SliceLast(s, n) == SubSeq(s, IF Len(s) > n THEN Len(s) - n + 1 ELSE 1, Len(s))

ConflictPhrase ==
  <<"c","o","o","r","d","i","n","a","t","e"," ","c","o","n","f","l","i","c","t">>

\* ------------------------------------------------- upstream: map elements
\* An Overpass element: tags (a record; tags.name may be absent), where its
\* coordinate comes from ("own" lat/lon, "center", or "none"), and dist, the
\* rounded haversine distance of that coordinate from the query point.
NameEiffel == <<"E","i","f","f","e","l">>
NameLouvre == <<"L","o","u","v","r","e">>

Digit(i) == <<"0","1","2","3","4","5","6","7","8","9">>[i + 1]

ElEiffel == [tags |-> [name |-> NameEiffel, tourism |-> "attraction"],
             coord |-> "own", dist |-> 50]
ElLouvre == [tags |-> [name |-> NameLouvre, tourism |-> "museum", historic |-> "yes"],
             coord |-> "center", dist |-> 900]
ElNumbered(i) == [tags |-> [name |-> <<"P", Digit(i)>>, leisure |-> "park"],
                  coord |-> "own", dist |-> 100 * i]

ElemsNone == <<>>
ElemsFew == <<ElLouvre, ElEiffel>>
ElemsMany == [i \in 1..POI_TARGET_COUNT |-> ElNumbered(i)]

\* the element lists an Overpass endpoint answers with
OverpassAnswers == {ElemsNone, ElemsFew, ElemsMany}

\* the element lists tried in the sync iteration, where only the names and
\* whether there is any POI matter
SyncOverpassAnswers == {ElemsNone, ElemsFew}

\* the elements of the POI scenario: one name in three spellings at two
\* distances, a second name, an element without a name and one without a
\* coordinate; and numbered elements, the higher the number the nearer,
\* enough of them to pass the cap
ElVariants ==
  {[tags |-> [name |-> <<"L","o","u","v","r","e">>, tourism |-> "museum"],
    coord |-> "center", dist |-> 900],
   [tags |-> [name |-> <<"L","O","U","V","R","E">>], coord |-> "own", dist |-> 300],
   [tags |-> [name |-> <<"l","o","u","v","r","e">>, historic |-> "yes"],
    coord |-> "own", dist |-> 300],
   ElEiffel,
   [tags |-> [tourism |-> "viewpoint"], coord |-> "own", dist |-> 10],
   [tags |-> [name |-> <<"E","i","f","f","e","l">>], coord |-> "none", dist |-> 0]}

ElFar(i) == [tags |-> [name |-> <<"Q", Digit(i \div 10), Digit(i % 10)>>],
             coord |-> "own", dist |-> 2000 - 10 * i]

ElemsUpTo(n) == UNION {[1..k -> ElVariants] : k \in 0..n}

PoiScenarioAnswers ==
  ElemsUpTo(MaxElems)
  \cup {[i \in 1..n |-> ElFar(i)] \o tail :
          n \in (POI_CAP - 1)..(POI_CAP + 2), tail \in ElemsUpTo(MaxElems - 1)}

\* ------------------------------------------------------ fetchNearbyPois
HasTag(tags, k) == k \in DOMAIN tags

PoiType(tags) ==
  IF HasTag(tags, "tourism") THEN tags.tourism
  ELSE IF HasTag(tags, "historic") THEN tags.historic
  ELSE IF HasTag(tags, "amenity") /\ tags.amenity = "place_of_worship" THEN "place_of_worship"
  ELSE IF HasTag(tags, "building") /\ tags.building = "temple" THEN "temple"
  ELSE IF HasTag(tags, "man_made") THEN tags.man_made
  ELSE IF HasTag(tags, "leisure") /\ tags.leisure = "park" THEN "park"
  ELSE "poi"

HintKeys == <<"tourism", "historic", "amenity", "building", "man_made", "leisure">>

RECURSIVE HintPairs(_, _)
HintPairs(tags, i) ==
  IF i > Len(HintKeys) THEN <<>>
  ELSE IF HasTag(tags, HintKeys[i])
       THEN <<(<<HintKeys[i], tags[HintKeys[i]]>>)>> \o HintPairs(tags, i + 1)
       ELSE HintPairs(tags, i + 1)

\* .filter(Boolean).slice(0, 3): the hint's "key=value" parts, before the join
PoiHint(tags) == Slice0(HintPairs(tags, 1), 3)

\* the element has a name and a finite coordinate pair
\* ElementUsable without the test of the coordinate (a variant, to show what
\* C33 depends on)
ElementUsableAnyCoord(el) == HasTag(el.tags, "name") /\ el.tags.name # <<>>

ElementUsable(el) == HasTag(el.tags, "name") /\ el.tags.name # <<>> /\ el.coord # "none"

ElementToPoi(el) ==
  [name |-> el.tags.name, type |-> PoiType(el.tags),
   distance_m |-> el.dist, hint |-> PoiHint(el.tags)]

RECURSIVE MapUsable(_)
MapUsable(els) ==
  IF els = <<>> THEN <<>>
  ELSE IF ElementUsable(Head(els))
       THEN <<ElementToPoi(Head(els))>> \o MapUsable(Tail(els))
       ELSE MapUsable(Tail(els))

\* Array.prototype.sort with (a, b) => a.distance_m - b.distance_m: a stable
\* sort, here by insertion after the last entry that is not farther.
RECURSIVE InsertByDistance(_, _)
InsertByDistance(p, sorted) ==
  IF sorted = <<>> THEN <<p>>
  ELSE IF Head(sorted).distance_m <= p.distance_m
       THEN <<Head(sorted)>> \o InsertByDistance(p, Tail(sorted))
       ELSE <<p>> \o sorted

\* no sort at all (a variant, to show what C25 depends on)
SortByArrival(ps) == ps

RECURSIVE SortByDistance(_)
SortByDistance(ps) ==
  IF ps = <<>> THEN <<>>
  ELSE InsertByDistance(ps[Len(ps)], SortByDistance(SubSeq(ps, 1, Len(ps) - 1)))

\* the de-dupe loop with the name itself as the key (a variant, to show what
\* C24 depends on)
RECURSIVE DedupeCapExactName(_, _, _)
DedupeCapExactName(ps, seen, out) ==
  IF ps = <<>> \/ Len(out) >= POI_CAP THEN out
  ELSE LET key == Head(ps).name IN
       IF key \in seen THEN DedupeCapExactName(Tail(ps), seen, out)
       ELSE DedupeCapExactName(Tail(ps), seen \cup {key}, Append(out, Head(ps)))

\* the de-dupe loop: skip a seen lowercase name, stop at the cap
RECURSIVE DedupeCap(_, _, _)
DedupeCap(ps, seen, out) ==
  IF ps = <<>> \/ Len(out) >= POI_CAP THEN out
  ELSE LET key == ToLowerCase(Head(ps).name) IN
       IF key \in seen THEN DedupeCap(Tail(ps), seen, out)
       ELSE DedupeCap(Tail(ps), seen \cup {key}, Append(out, Head(ps)))

\* fetchNearbyPois, from the elements of the endpoint's JSON on
PoisFromElements(els) == DedupeCap(SortByDistance(MapUsable(els)), {}, <<>>)

\* ------------------------------------------------- upstream: model output
\* What client.responses.create resolves to is output_text; an Answer is that
\* text as JSON.parse sees it: text = "garbage" does not parse; otherwise
\* json is the parsed object, whose candidates are absent, a string of
\* length 3 (a non-array value with a length), or an array of items. An item
\* is JSNull or an object holding some of name, why, confidence, searchQuery
\* (confidence in hundredths).
WhyPlain == <<"s","k","y">>
WhyConflict ==
  <<"C","o","o","r","d","i","n","a","t","e"," ","C","o","n","f","l","i","c","t">>

NameSuper == <<"e","i","f","f","e","l"," ","T">>   \* contains the POI name
NameSub == <<"E","I","F">>                          \* contained in the POI name
NameOther == <<"A","r","c">>                        \* unrelated to every POI name

Cand(nm, why, conf) == [name |-> nm, why |-> why, confidence |-> conf, searchQuery |-> "q"]
CandNoWhy == [name |-> NameOther, confidence |-> 50, searchQuery |-> "q"]
CandNoName == [why |-> WhyPlain, confidence |-> 50, searchQuery |-> "q"]

Json(pc, cands) == [text |-> "json", json |-> [photoContext |-> pc, candidates |-> cands]]
Arr(items) == [kind |-> "array", items |-> items]

AnsGarbage == [text |-> "garbage"]
AnsAbsent == [text |-> "json", json |-> [photoContext |-> "ctxA"]]
AnsString == Json("ctxA", [kind |-> "string", len |-> 3])
AnsSuper == Json("ctxA", Arr(<<Cand(NameSuper, WhyPlain, 90), Cand(NameOther, WhyPlain, 40),
                               Cand(NameOther, WhyPlain, 10)>>))
AnsSub == Json("ctxB", Arr(<<Cand(NameOther, WhyPlain, 60), Cand(NameSub, WhyPlain, 30),
                             Cand(NameOther, WhyPlain, 10)>>))
AnsOther == Json("ctxA", Arr(<<Cand(NameOther, WhyPlain, 70), Cand(NameOther, WhyPlain, 20),
                               Cand(NameOther, WhyPlain, 10)>>))
AnsConflict == Json("ctxB", Arr(<<Cand(NameOther, WhyConflict, 20), Cand(NameOther, WhyPlain, 10),
                                  Cand(NameOther, WhyPlain, 5)>>))
AnsTwo == Json("ctxA", Arr(<<Cand(NameOther, WhyPlain, 70), Cand(NameOther, WhyPlain, 20)>>))
AnsFour == Json("ctxA", Arr(<<Cand(NameSuper, WhyPlain, 70), Cand(NameOther, WhyPlain, 20),
                              Cand(NameOther, WhyPlain, 10), Cand(NameOther, WhyPlain, 5)>>))
AnsNoWhy == Json("ctxA", Arr(<<Cand(NameOther, WhyPlain, 70), CandNoWhy,
                               Cand(NameOther, WhyPlain, 10)>>))
AnsNoName == Json("ctxA", Arr(<<Cand(NameOther, WhyPlain, 70), CandNoName,
                                Cand(NameOther, WhyPlain, 10)>>))
AnsConfOut == Json("ctxA", Arr(<<Cand(NameSuper, WhyPlain, 150), Cand(NameOther, WhyPlain, 20),
                                 Cand(NameOther, WhyPlain, 10)>>))
AnsNullItem == Json("ctxA", Arr(<<Cand(NameOther, WhyPlain, 70), JSNull,
                                  Cand(NameOther, WhyPlain, 10)>>))

ModelAnswers ==
  {AnsGarbage, AnsAbsent, AnsString, AnsSuper, AnsSub, AnsOther, AnsConflict, AnsTwo, AnsFour,
   AnsNoWhy, AnsNoName, AnsConfOut, AnsNullItem}

\* the answers tried in the job iteration, where no code reads a candidate's
\* name or why against the POI list
JobModelAnswers ==
  {AnsGarbage, AnsAbsent, AnsString, AnsSuper, AnsTwo, AnsFour, AnsNoWhy, AnsConfOut, AnsNullItem}

\* JSON.parse(output_text) succeeds
Parses(ans) == ans.text = "json"

\* parsed.candidates is present (truthy)
HasCandidates(parsed) == "candidates" \in DOMAIN parsed

\* parsed.candidates.length
CandLength(parsed) ==
  IF parsed.candidates.kind = "array" THEN Len(parsed.candidates.items) ELSE parsed.candidates.len

\* parsed?.candidates || []
CandItemsOrEmpty(parsed) == IF HasCandidates(parsed) THEN parsed.candidates.items ELSE <<>>

\* candidates.map((c) => c.name) completes: candidates has a map method (is
\* an array) and no item is null
NameMapThrows(cands) ==
  \/ cands.kind # "array"
  \/ \E i \in 1..Len(cands.items) : cands.items[i] = JSNull

\* the declared JSON schema of a candidate: all four fields, confidence in [0,1]
WellFormedCandidate(c) ==
  /\ c # JSNull
  /\ {"name", "why", "confidence", "searchQuery"} \subseteq DOMAIN c
  /\ c.confidence >= 0 /\ c.confidence <= 100

\* --------------------------------------------- upstream: reverse geocoders
\* displayName is a sequence of parts (joined with ", "); <<>> is null.
NullReverse == [displayName |-> <<>>, city |-> Null, state |-> Null, country |-> Null]

NomFull == [display_name |-> <<"Champ de Mars, Paris">>,
            address |-> [town |-> "Paris", state |-> "Ile-de-France", country |-> "France"]]
NomEmpty == [unused |-> TRUE]
NominatimAnswers == {NomFull, NomEmpty}

BdcFull == [locality |-> "Paris", principalSubdivision |-> "Ile-de-France", countryName |-> "France"]
BigDataCloudAnswers == {BdcFull}

\* x.f || null
FieldOrNull(obj, f) == IF f \in DOMAIN obj THEN obj[f] ELSE Null

\* addr.city || addr.town || addr.village || addr.municipality || addr.county || null
CityOf(addr) ==
  IF "city" \in DOMAIN addr THEN addr.city
  ELSE IF "town" \in DOMAIN addr THEN addr.town
  ELSE IF "village" \in DOMAIN addr THEN addr.village
  ELSE IF "municipality" \in DOMAIN addr THEN addr.municipality
  ELSE IF "county" \in DOMAIN addr THEN addr.county
  ELSE Null

\* the result reverseGeocode builds from Nominatim's JSON
ReverseFromNominatim(json) ==
  LET addr == IF "address" \in DOMAIN json THEN json.address ELSE [unused |-> TRUE] IN
  [displayName |-> IF "display_name" \in DOMAIN json THEN json.display_name ELSE <<>>,
   city |-> CityOf(addr),
   state |-> FieldOrNull(addr, "state"),
   country |-> FieldOrNull(addr, "country")]

\* [j?.locality, j?.principalSubdivision, j?.countryName].filter(Boolean)
BdcParts(j) ==
  (IF "locality" \in DOMAIN j THEN <<j.locality>> ELSE <<>>)
  \o (IF "principalSubdivision" \in DOMAIN j THEN <<j.principalSubdivision>> ELSE <<>>)
  \o (IF "countryName" \in DOMAIN j THEN <<j.countryName>> ELSE <<>>)

\* the result reverseGeocode builds from the fallback provider's JSON
ReverseFromFallback(j) ==
  [displayName |-> BdcParts(j),
   city |-> IF "city" \in DOMAIN j THEN j.city ELSE FieldOrNull(j, "locality"),
   state |-> FieldOrNull(j, "principalSubdivision"),
   country |-> FieldOrNull(j, "countryName")]

\* errors of the upstream calls, as the message the code sees
ErrAbort == "This operation was aborted"
ErrNetwork == "fetch failed"
ErrNominatimHttp == "Nominatim reverse failed: 503"
ErrFallbackHttp == "Fallback reverse failed: 500"
ErrOverpassHttp == "Overpass HTTP 504"
ErrModelApi == "OpenAI API error"
ErrJsonParse == "Unexpected token in JSON"
ErrNot3 == "Model did not return 3 candidates"
ErrNameMap == "TypeError in candidates.map((c) => c.name)"
ErrEmpty == ""

\* String(e?.message || e): an Error with an empty message prints as "Error"
ErrorText(msg) == IF msg = ErrEmpty THEN "Error" ELSE msg

\* ====================================================================
\* The job iteration (src/server.js, lines 1-711)
\* ====================================================================
VARIABLES
  cfg,         \* the run: deployed ("job" or "sync": the iteration this process
               \* runs), its limits maxJobs, maxReqs, maxTicks, and what the
               \* clients and the model send: points, clients, answers, serial
  now,         \* Date.now(), in ms since the process started
  jobs,        \* the job objects ever created, by jobId (1..Len(jobs))
  locateJobs,  \* the keys of the Map locateJobs
  run,         \* per job: where runLocateJob stands, and its locals
  termRead,    \* per jobId: the first terminal answer a poll returned
  lastPost,    \* the answer of the latest POST /api/locate
  reqs,               \* sync iteration: the locate requests, in order of arrival
  geoCache,           \* the Map geoCache: key -> [value, expiresAt]
  photoContextCache,  \* the Map photoContextCache: client key -> [photoContext, expiresAt]
  chats,              \* the requests of POST /api/chat, in order of arrival
  search,             \* the latest call of fetchNearbyPois: the elements the
                      \* endpoint answered with and the list returned; and
                      \* the number of calls so far
  debug               \* the requests of the /debug endpoints, in order of arrival

jobVars == <<jobs, locateJobs, run, termRead, lastPost>>
syncVars == <<reqs, geoCache, photoContextCache>>

NumEndpoints == 3

\* radii of runLocateJob
Radii == <<OVERPASS_RADIUS_M, OVERPASS_RADIUS_M * 2, OVERPASS_RADIUS_M * 4>>

NoView == [code |-> 0]
NoPost == [code |-> 0]

\* the job object of POST /api/locate. radiusM 0 stands for null; hist is
\* history: every value assigned to status, in order.
NewJob(id, t) ==
  [jobId |-> id, createdAt |-> t, status |-> "pending", error |-> Null, trace |-> <<>>,
   dataUrl |-> "data:image", geo |-> [reverse |-> JSNull, pois |-> <<>>, radiusM |-> 0],
   result |-> JSNull, prompt |-> JSNull, hist |-> <<"pending">>]

\* NewRun with the Nominatim fetch already issued (a variant, to show what
\* C11 depends on)
NewRunFetching == [pc |-> "nominatim", rIdx |-> 0, ep |-> 0, lastErr |-> Null, pois |-> <<>>]

NewRun == [pc |-> "immediate", rIdx |-> 0, ep |-> 0, lastErr |-> Null, pois |-> <<>>]

\* job.status = s
SetStatus(job, s) == [job EXCEPT !.status = s, !.hist = Append(@, s)]

\* trace(job, step, detail)
Trace(job, step) == [job EXCEPT !.trace = Append(@, step)]

\* the part of the prompt that depends on the geo context
BuildPrompt(reverse, usedRadius, pois) ==
  [area |-> reverse.displayName, radiusM |-> usedRadius, pois |-> Slice0(pois, PROMPT_POIS)]

\* runLocateJob, from its start to the await in reverseGeocode
GeoStart(job) == Trace(SetStatus(job, "geo"), "geo_start")

\* reverseGeocode returned: job.geo.reverse, trace, and the first overpass_start
ReverseDone(job, reverse) ==
  Trace(Trace([job EXCEPT !.geo.reverse = reverse], "reverse_done"), "overpass_start")

\* OpenAIStart with the prompt built from the POI list the job held before
\* the radius loop (a variant, to show what C10 depends on)
OpenAIStartStalePois(job, pois, usedRadius) ==
  LET j1 == [job EXCEPT !.geo.radiusM = usedRadius, !.geo.pois = pois]
      j2 == Trace(SetStatus(j1, "openai"), "openai_start")
  IN [j2 EXCEPT !.prompt = BuildPrompt(job.geo.reverse, usedRadius, job.geo.pois)]

\* OpenAIStart recording the base radius whatever radius the loop ended at
\* (a variant, to show what C18 depends on)
OpenAIStartBaseRadius(job, pois, usedRadius) ==
  LET j1 == [job EXCEPT !.geo.radiusM = OVERPASS_RADIUS_M, !.geo.pois = pois]
      j2 == Trace(SetStatus(j1, "openai"), "openai_start")
  IN [j2 EXCEPT !.prompt = BuildPrompt(job.geo.reverse, OVERPASS_RADIUS_M, pois)]

\* after the radius loop: geo context, status openai, prompt
OpenAIStart(job, pois, usedRadius) ==
  LET j1 == [job EXCEPT !.geo.radiusM = usedRadius, !.geo.pois = pois]
      j2 == Trace(SetStatus(j1, "openai"), "openai_start")
  IN [j2 EXCEPT !.prompt = BuildPrompt(job.geo.reverse, usedRadius, pois)]

\* CatchFinally without the call of trace (a variant, to show what C32
\* depends on)
CatchNoTrace(job, msg) ==
  [SetStatus(job, "error") EXCEPT !.error = ErrorText(msg), !.dataUrl = Null]

\* CatchFinally without the finally block (a variant, to show what C15
\* depends on)
CatchOnly(job, msg) ==
  Trace([SetStatus(job, "error") EXCEPT !.error = ErrorText(msg)], "error")

\* CatchFinally without the assignment of job.error (a variant, to show what
\* C16 depends on)
CatchNoMessage(job, msg) ==
  [Trace(SetStatus(job, "error"), "error") EXCEPT !.dataUrl = Null]

\* the catch and finally blocks of runLocateJob
CatchFinally(job, msg) ==
  [Trace([SetStatus(job, "error") EXCEPT !.error = ErrorText(msg)], "error")
     EXCEPT !.dataUrl = Null]

\* JobNot3 without the length test (a variant, to show what C8 depends on)
JobNot3OnlyAbsent(parsed) == ~HasCandidates(parsed)

\* !parsed?.candidates || parsed.candidates.length !== 3
JobNot3(parsed) == ~HasCandidates(parsed) \/ CandLength(parsed) # 3

\* runLocateJob from the model's answer to its end
AfterModel(job, ans) ==
  IF ~Parses(ans) THEN CatchFinally(job, ErrJsonParse)
  ELSE IF JobNot3(ans.json) THEN CatchFinally(job, ErrNot3)
  ELSE LET j1 == [job EXCEPT !.result = [photoContext |-> FieldOrNull(ans.json, "photoContext"),
                                         candidates |-> ans.json.candidates]]
           j2 == SetStatus(j1, "done")
       IN IF NameMapThrows(ans.json.candidates) THEN CatchFinally(j2, ErrNameMap)
          ELSE [Trace(j2, "openai_done") EXCEPT !.dataUrl = Null]

\* GET /api/locate_result, for a job found in the store
JobView(job) ==
  IF job.status \in {"pending", "geo", "openai"}
  THEN [code |-> 200, status |-> job.status,
        reverse |-> IF job.geo.reverse = JSNull THEN <<>> ELSE job.geo.reverse.displayName,
        poisCount |-> Len(job.geo.pois)]
  ELSE IF job.status = "error"
  THEN [code |-> 200, status |-> "error",
        error |-> IF job.error \in {Null, ""} THEN "Unknown error" ELSE job.error]
  ELSE [code |-> 200, status |-> "done",
        photoContext |-> IF job.result = JSNull \/ job.result.photoContext = Null
                         THEN "" ELSE job.result.photoContext,
        candidates |-> IF job.result = JSNull THEN Arr(<<>>) ELSE job.result.candidates]

UnknownJobView == [code |-> 404, error |-> "Unknown jobId"]

\* LocateResultView answering an id that is not in the store as a job that
\* has not started (a variant, to show what C13 depends on)
LocateResultViewUnknownPending(id) ==
  IF id \notin locateJobs
  THEN [code |-> 200, status |-> "pending", reverse |-> <<>>, poisCount |-> 0]
  ELSE JobView(jobs[id])

\* GET /api/locate_result?jobId=id
LocateResultView(id) ==
  IF id \notin locateJobs THEN UnknownJobView ELSE JobView(jobs[id])

IsTerminalView(v) == v.code = 200 /\ v.status \in {"done", "error"}

JobIds == 1..Len(jobs)

\* SetJob writing one job object held by the module instead of the one the
\* handler passed to runLocateJob (a variant, to show what C31 depends on)
SetJobShared(j, job) == jobs' = [k \in DOMAIN jobs |-> [job EXCEPT !.jobId = jobs[k].jobId]]

SetJob(j, job) == jobs' = [jobs EXCEPT ![j] = job]
SetRun(j, r) == run' = [run EXCEPT ![j] = r]

\* PostLocateJob without locateJobs.set (a variant, to show what C12 depends
\* on)
PostLocateJobNotStored(hasFile, hasLoc) ==
  /\ cfg.deployed = "job"
  /\ IF ~hasFile
     THEN /\ lastPost' = [code |-> 400, error |-> "Missing form field 'image'."]
          /\ UNCHANGED <<jobs, locateJobs, run>>
     ELSE IF ~hasLoc
     THEN /\ lastPost' = [code |-> 400, error |-> "Missing/invalid lat/lon. This server requires location."]
          /\ UNCHANGED <<jobs, locateJobs, run>>
     ELSE /\ Len(jobs) < cfg.maxJobs
          /\ LET id == Len(jobs) + 1 IN
             /\ jobs' = Append(jobs, NewJob(id, now))
             /\ locateJobs' = locateJobs
             /\ run' = Append(run, NewRun)
             /\ lastPost' = [code |-> 200, jobId |-> id]
  /\ UNCHANGED <<cfg, debug, chats, search, now, termRead, syncVars>>

\* PostLocateJob without the test of lat and lon (a variant, to show what
\* C23 depends on)
PostLocateJobAnyLocation(hasFile, hasLoc) ==
  /\ cfg.deployed = "job"
  /\ IF ~hasFile
     THEN /\ lastPost' = [code |-> 400, error |-> "Missing form field 'image'."]
          /\ UNCHANGED <<jobs, locateJobs, run>>
     ELSE /\ Len(jobs) < cfg.maxJobs
          /\ LET id == Len(jobs) + 1 IN
             /\ jobs' = Append(jobs, NewJob(id, now))
             /\ locateJobs' = locateJobs \cup {id}
             /\ run' = Append(run, NewRun)
             /\ lastPost' = [code |-> 200, jobId |-> id]
  /\ UNCHANGED <<cfg, debug, chats, search, now, termRead, syncVars>>

\* POST /api/locate (job iteration): 400 without image or finite lat/lon,
\* otherwise the job is stored, runLocateJob is queued with setImmediate and
\* the jobId is returned.
PostLocateJob(hasFile, hasLoc) ==
  /\ cfg.deployed = "job"
  /\ IF ~hasFile
     THEN /\ lastPost' = [code |-> 400, error |-> "Missing form field 'image'."]
          /\ UNCHANGED <<jobs, locateJobs, run>>
     ELSE IF ~hasLoc
     THEN /\ lastPost' = [code |-> 400, error |-> "Missing/invalid lat/lon. This server requires location."]
          /\ UNCHANGED <<jobs, locateJobs, run>>
     ELSE /\ Len(jobs) < cfg.maxJobs
          /\ LET id == Len(jobs) + 1 IN
             /\ jobs' = Append(jobs, NewJob(id, now))
             /\ locateJobs' = locateJobs \cup {id}
             /\ run' = Append(run, NewRun)
             /\ lastPost' = [code |-> 200, jobId |-> id]
  /\ UNCHANGED <<cfg, debug, chats, search, now, termRead, syncVars>>

\* the setImmediate callback: runLocateJob up to the Nominatim fetch
StartJob(j) ==
  /\ cfg.deployed = "job" /\ j \in JobIds /\ run[j].pc = "immediate"
  /\ SetJob(j, GeoStart(jobs[j]))
  /\ SetRun(j, [run[j] EXCEPT !.pc = "nominatim"])
  /\ UNCHANGED <<cfg, debug, chats, search, now, locateJobs, termRead, lastPost, syncVars>>

\* reverseGeocode returned `reverse`: on to the first Overpass endpoint at
\* the first radius
EnterRadiusLoop(j, reverse) ==
  /\ SetJob(j, ReverseDone(jobs[j], reverse))
  /\ SetRun(j, [run[j] EXCEPT !.pc = "overpass", !.rIdx = 1, !.ep = 1, !.lastErr = Null])

\* the primary provider failed: the catch block of reverseGeocode calls the
\* fallback provider
NominatimFailed(j) ==
  /\ SetRun(j, [run[j] EXCEPT !.pc = "fallback"])
  /\ UNCHANGED jobs

\* JobThrows with the pipeline left where it was, as if the awaits after the
\* failed one still ran (a variant, to show what C2 depends on)
JobThrowsKeepsRunning(j, msg) ==
  /\ SetJob(j, CatchFinally(jobs[j], msg))
  /\ UNCHANGED run

\* an exception reached the catch block of runLocateJob
JobThrows(j, msg) ==
  /\ SetJob(j, CatchFinally(jobs[j], msg))
  /\ SetRun(j, [NewRun EXCEPT !.pc = "finished"])

\* Nominatim answered 2xx with JSON
NominatimOk(j, json) ==
  /\ cfg.deployed = "job" /\ j \in JobIds /\ run[j].pc = "nominatim"
  /\ EnterRadiusLoop(j, ReverseFromNominatim(json))
  /\ UNCHANGED <<cfg, debug, chats, search, now, locateJobs, termRead, lastPost, syncVars>>

\* Nominatim answered non-2xx, or the fetch failed
NominatimError(j) ==
  /\ cfg.deployed = "job" /\ j \in JobIds /\ run[j].pc = "nominatim"
  /\ NominatimFailed(j)
  /\ UNCHANGED <<cfg, debug, chats, search, now, locateJobs, termRead, lastPost, syncVars>>

\* the timer of fetchWithTimeout (NOMINATIM_TIMEOUT_MS) aborted the fetch
NominatimTimeout(j) ==
  /\ cfg.deployed = "job" /\ j \in JobIds /\ run[j].pc = "nominatim"
  /\ NominatimFailed(j)
  /\ UNCHANGED <<cfg, debug, chats, search, now, locateJobs, termRead, lastPost, syncVars>>

\* the fallback provider answered 2xx with JSON
FallbackOk(j, json) ==
  /\ cfg.deployed = "job" /\ j \in JobIds /\ run[j].pc = "fallback"
  /\ EnterRadiusLoop(j, ReverseFromFallback(json))
  /\ UNCHANGED <<cfg, debug, chats, search, now, locateJobs, termRead, lastPost, syncVars>>

\* the fallback provider answered non-2xx (the throw in the catch block), or
\* its fetch failed: the exception leaves reverseGeocode
FallbackError(j, msg) ==
  /\ cfg.deployed = "job" /\ j \in JobIds /\ run[j].pc = "fallback"
  /\ JobThrows(j, msg)
  /\ UNCHANGED <<cfg, debug, chats, search, now, locateJobs, termRead, lastPost, syncVars>>

\* the 8000 ms timer aborted the fallback fetch
FallbackTimeout(j) ==
  /\ cfg.deployed = "job" /\ j \in JobIds /\ run[j].pc = "fallback"
  /\ JobThrows(j, ErrAbort)
  /\ UNCHANGED <<cfg, debug, chats, search, now, locateJobs, termRead, lastPost, syncVars>>

\* OverpassFailed without the loop over the endpoints: the first failure is
\* thrown (a variant, to show what C27 depends on)
OverpassFailedNoFallback(j, msg) == JobThrows(j, msg)

\* OverpassFailed starting again at the first endpoint after the last one
\* failed (a variant, to show what C37 depends on)
OverpassFailedAgain(j, msg) ==
  /\ SetRun(j, [run[j] EXCEPT !.ep = (@ % NumEndpoints) + 1, !.lastErr = msg])
  /\ UNCHANGED jobs

\* fetchOverpassWithFallback: the endpoint failed with msg; the next one is
\* tried, and after the last one lastErr is thrown, through fetchNearbyPois,
\* into runLocateJob
OverpassFailed(j, msg) ==
  IF run[j].ep < NumEndpoints
  THEN /\ SetRun(j, [run[j] EXCEPT !.ep = @ + 1, !.lastErr = msg])
       /\ UNCHANGED jobs
  ELSE JobThrows(j, msg)

\* OverpassOk without the test of POI_TARGET_COUNT: the loop always runs
\* through all radii (a variant, to show what C26 depends on)
OverpassOkAllRadii(j, els) ==
  /\ cfg.deployed = "job" /\ j \in JobIds /\ run[j].pc = "overpass"
  /\ LET got == PoisFromElements(els)
         job == Trace(jobs[j], "overpass_done")
     IN IF run[j].rIdx = Len(Radii)
        THEN /\ SetJob(j, OpenAIStart(job, got, Radii[run[j].rIdx]))
             /\ SetRun(j, [NewRun EXCEPT !.pc = "openai"])
        ELSE /\ SetJob(j, Trace(job, "overpass_start"))
             /\ SetRun(j, [run[j] EXCEPT !.rIdx = @ + 1, !.ep = 1, !.lastErr = Null,
                                         !.pois = got])
  /\ UNCHANGED <<cfg, debug, chats, search, now, locateJobs, termRead, lastPost, syncVars>>

\* an Overpass endpoint answered 2xx with elements: fetchNearbyPois returns,
\* and the radius loop goes on or ends
OverpassOk(j, els) ==
  /\ cfg.deployed = "job" /\ j \in JobIds /\ run[j].pc = "overpass"
  /\ LET got == PoisFromElements(els)
         job == Trace(jobs[j], "overpass_done")
     IN IF Len(got) >= POI_TARGET_COUNT \/ run[j].rIdx = Len(Radii)
        THEN /\ SetJob(j, OpenAIStart(job, got, Radii[run[j].rIdx]))
             /\ SetRun(j, [NewRun EXCEPT !.pc = "openai"])
        ELSE /\ SetJob(j, Trace(job, "overpass_start"))
             /\ SetRun(j, [run[j] EXCEPT !.rIdx = @ + 1, !.ep = 1, !.lastErr = Null,
                                         !.pois = got])
  /\ UNCHANGED <<cfg, debug, chats, search, now, locateJobs, termRead, lastPost, syncVars>>

\* an Overpass endpoint answered non-2xx, or the fetch failed
OverpassError(j, msg) ==
  /\ cfg.deployed = "job" /\ j \in JobIds /\ run[j].pc = "overpass"
  /\ OverpassFailed(j, msg)
  /\ UNCHANGED <<cfg, debug, chats, search, now, locateJobs, termRead, lastPost, syncVars>>

\* the timer of fetchWithTimeout (OVERPASS_TIMEOUT_MS) aborted the fetch
OverpassTimeout(j) ==
  /\ cfg.deployed = "job" /\ j \in JobIds /\ run[j].pc = "overpass"
  /\ OverpassFailed(j, ErrAbort)
  /\ UNCHANGED <<cfg, debug, chats, search, now, locateJobs, termRead, lastPost, syncVars>>

\* client.responses.create resolved with output_text ans
ModelAnswers1(j, ans) ==
  /\ cfg.deployed = "job" /\ j \in JobIds /\ run[j].pc = "openai"
  /\ SetJob(j, AfterModel(jobs[j], ans))
  /\ SetRun(j, [NewRun EXCEPT !.pc = "finished"])
  /\ UNCHANGED <<cfg, debug, chats, search, now, locateJobs, termRead, lastPost, syncVars>>

\* client.responses.create rejected with an error of message msg
ModelError(j, msg) ==
  /\ cfg.deployed = "job" /\ j \in JobIds /\ run[j].pc = "openai"
  /\ JobThrows(j, msg)
  /\ UNCHANGED <<cfg, debug, chats, search, now, locateJobs, termRead, lastPost, syncVars>>

\* GET /api/locate_result?jobId=id. termRead keeps the first terminal answer.
GetLocateResult(id) ==
  /\ cfg.deployed = "job"
  /\ LET v == LocateResultView(id) IN
     termRead' = IF IsTerminalView(v) /\ termRead[id] = NoView
                 THEN [termRead EXCEPT ![id] = v] ELSE termRead
  /\ UNCHANGED <<cfg, debug, chats, search, now, jobs, locateJobs, run, lastPost, syncVars>>

\* SweepKeeps deleting a job from the age JOB_TTL_MS on (a variant, to show
\* what C36 depends on)
SweepKeepsYounger == {id \in locateJobs : now - jobs[id].createdAt < JOB_TTL_MS}

\* SweepKeeps keeping the expired jobs that have not ended (a variant, to
\* show what C14 depends on)
SweepKeepsRunning ==
  {id \in locateJobs :
     ~(now - jobs[id].createdAt > JOB_TTL_MS /\ jobs[id].status \in {"done", "error"})}

\* the jobs the sweep leaves in the store: those it does not delete
SweepKeeps == {id \in locateJobs : ~(now - jobs[id].createdAt > JOB_TTL_MS)}

\* the setInterval sweep of locateJobs
SweepJobs ==
  /\ cfg.deployed = "job"
  /\ locateJobs' = SweepKeeps
  /\ UNCHANGED <<cfg, debug, chats, search, now, jobs, run, termRead, lastPost, syncVars>>

\* ====================================================================
\* The sync iteration (src/unnamed/part_000)
\* ====================================================================
\* Coordinates are integers, in millionths of a degree.
PtA == [lat |-> 48858400, lon |-> 2294500]
PtB == [lat |-> 48858404, lon |-> 2294500]
PtC == [lat |-> 48858406, lon |-> 2294500]
Points == {PtA, PtB, PtC}

\* Math.round(x * 1e5) / 1e5, as the number of 1e-5 degrees
Round5(x) == (x + 5) \div 10

\* geoCacheKey without the rounding (a variant, to show what C19 depends on)
geoCacheKeyExact(lat, lon, radiusM) == <<lat, lon, radiusM>>

geoCacheKey(lat, lon, radiusM) == <<Round5(lat), Round5(lon), radiusM>>

Pending == [pending |-> TRUE]
NoResp == [code |-> 0]
NoAnswer == [text |-> "none"]
Rejected == [text |-> "rejected"]

Resp200(cands) == [code |-> 200, candidates |-> cands]
Resp500(msg) == [code |-> 500, error |-> msg]

\* a request of POST /api/locate: its inputs, the locals of the handler that
\* live across an await, its response; primary, repair and repairCalls are
\* history (what the two model calls resolved to, how many repair calls), and
\* so are geoFetched (getGeoContext issued reverse-geocode and POI requests
\* for it) and geoDoneAt (Date.now() when getGeoContext stored its value; -1
\* when it stored none)
NewReq(hasLoc, pt, client) ==
  [pc |-> "new", hasLoc |-> hasLoc, lat |-> pt.lat, lon |-> pt.lon, client |-> client,
   rev |-> JSNull, poiEp |-> 0, poiRes |-> JSNull, geo |-> JSNull, parsed |-> JSNull,
   response |-> NoResp, primary |-> NoAnswer, repair |-> NoAnswer, repairCalls |-> 0,
   geoFetched |-> FALSE, geoDoneAt |-> -1]

Respond(req, resp) == [req EXCEPT !.pc = "done", !.response = resp, !.parsed = JSNull]

\* Map.prototype.set
MapSet(m, k, v) == [x \in DOMAIN m \cup {k} |-> IF x = k THEN v ELSE m[x]]

\* Map.prototype.delete of every key not in keep
MapKeep(m, keep) == [x \in keep |-> m[x]]

EmptyMap == [x \in {} |-> JSNull]

\* setPhotoContext(req, photoContext)
setPhotoContext(cache, client, pc, t) ==
  MapSet(cache, client, [photoContext |-> pc, expiresAt |-> t + PHOTO_TTL_MS])

\* if (parsed?.photoContext) setPhotoContext(req, parsed.photoContext)
PhotoAfter(cache, client, parsed, t) ==
  IF "photoContext" \in DOMAIN parsed /\ parsed.photoContext # ""
  THEN setPhotoContext(cache, client, parsed.photoContext, t)
  ELSE cache

\* Boolean(geo?.pois?.length)
HasPois(geo) == geo # JSNull /\ Len(geo.pois) > 0

\* (c?.name || "").toLowerCase()
ChosenName(c) ==
  IF c = JSNull \/ "name" \notin DOMAIN c THEN <<>> ELSE ToLowerCase(c.name)

\* String(c?.why || "").toLowerCase()
ChosenWhy(c) ==
  IF c = JSNull \/ "why" \notin DOMAIN c THEN <<>> ELSE ToLowerCase(c.why)

\* new Set(geo.pois.map((p) => p.name.toLowerCase()))
AllowedNames(geo) == {ToLowerCase(geo.pois[i].name) : i \in 1..Len(geo.pois)}

anyMatches(geo, items) ==
  \E i \in 1..Len(items) : \E a \in AllowedNames(geo) :
    Includes(ChosenName(items[i]), a) \/ Includes(a, ChosenName(items[i]))

mentionsConflict(items) ==
  \E i \in 1..Len(items) : Includes(ChosenWhy(items[i]), ConflictPhrase)

\* IgnoredPois without the test of the conflict phrase (a variant, to show
\* what C9 depends on)
IgnoredPoisAnyWhy(geo, parsed) == ~anyMatches(geo, CandItemsOrEmpty(parsed))

\* !anyMatches && !mentionsConflict
IgnoredPois(geo, parsed) ==
  /\ ~anyMatches(geo, CandItemsOrEmpty(parsed))
  /\ ~mentionsConflict(CandItemsOrEmpty(parsed))

\* the end of the handler: the check of parsed.candidates and the response
SyncFinal(parsed) ==
  IF ~HasCandidates(parsed) \/ CandLength(parsed) # 3
  THEN Resp500("Model did not return 3 candidates.")
  ELSE IF NameMapThrows(parsed.candidates) THEN Resp500("Server error")
  ELSE Resp200(parsed.candidates)

\* the handler from the primary answer to the repair call or the response
SyncAfterPrimary(req, ans) ==
  IF ~Parses(ans) THEN Respond(req, Resp500("Server error"))
  ELSE IF req.hasLoc /\ HasPois(req.geo)
  THEN IF HasCandidates(ans.json) /\ ans.json.candidates.kind # "array"
       THEN Respond(req, Resp500("Server error"))
       ELSE IF IgnoredPois(req.geo, ans.json)
       THEN [req EXCEPT !.pc = "repair", !.parsed = ans.json, !.repairCalls = @ + 1]
       ELSE Respond(req, SyncFinal(ans.json))
  ELSE Respond(req, SyncFinal(ans.json))

\* repaired?.candidates?.length === 3
RepairedHas3(repaired) == HasCandidates(repaired) /\ CandLength(repaired) = 3

\* the handler from the repair answer to the response
SyncAfterRepair(req, ans) ==
  IF ~Parses(ans) THEN Respond(req, Resp500("Server error"))
  ELSE IF RepairedHas3(ans.json)
  THEN IF NameMapThrows(ans.json.candidates)
       THEN Respond(req, Resp500("Server error"))
       ELSE Respond(req, Resp200(ans.json.candidates))
  ELSE Respond(req, SyncFinal(req.parsed))

\* GeoCacheHit without the test of expiresAt (a variant, to show what C20
\* depends on)
GeoCacheHitAnyAge(key, t) == key \in DOMAIN geoCache

\* cached && Date.now() < cached.expiresAt
GeoCacheHit(key, t) == key \in DOMAIN geoCache /\ t < geoCache[key].expiresAt

\* the value getGeoContext builds from geoResult
GeoValue(rev, pois) == [reverse |-> rev, pois |-> pois, radiusM |-> SYNC_RADIUS_M]

ReqIds == 1..Len(reqs)

\* getGeoContext has its value: it is cached and the handler goes on to the
\* model call
FinishGeo(r, value) ==
  /\ geoCache' = MapSet(geoCache, geoCacheKey(reqs[r].lat, reqs[r].lon, SYNC_RADIUS_M),
                        [value |-> value, expiresAt |-> now + GEO_TTL_MS])
  /\ reqs' = [reqs EXCEPT ![r] = [@ EXCEPT !.pc = "model", !.geo = value, !.rev = JSNull,
                                           !.poiEp = 0, !.poiRes = JSNull,
                                           !.geoDoneAt = now]]

\* one of the two parallel calls settled: Promise.all resolves when both have
GeoTaskSettled(r, rev, poiEp, poiRes) ==
  IF rev # Pending /\ poiRes # Pending
  THEN FinishGeo(r, GeoValue(rev, poiRes.pois))
  ELSE /\ reqs' = [reqs EXCEPT ![r] =
                    [@ EXCEPT !.rev = rev, !.poiEp = poiEp, !.poiRes = poiRes]]
       /\ UNCHANGED geoCache

\* the locationBlock of the prompt: the branch taken and what it prints of geo
LocationBlock(hasLoc, geo) ==
  IF hasLoc
  THEN [available |-> TRUE,
        reverse |-> IF geo = JSNull THEN <<>> ELSE geo.reverse.displayName,
        radiusM |-> IF geo = JSNull THEN SYNC_RADIUS_M ELSE geo.radiusM,
        pois |-> IF HasPois(geo) THEN Slice0(geo.pois, PROMPT_POIS) ELSE <<>>]
  ELSE [available |-> FALSE]

\* PostLocateSync without the test of hasLoc before getGeoContext (a variant,
\* to show what C21 depends on)
PostLocateSyncAlwaysGeo(hasFile, hasLoc, pt, client) ==
  /\ cfg.deployed = "sync" /\ Len(reqs) < cfg.maxReqs
  /\ cfg.serial => \A r \in ReqIds : reqs[r].pc = "done"
  /\ LET req == NewReq(hasLoc, pt, client)
         key == geoCacheKey(pt.lat, pt.lon, SYNC_RADIUS_M)
     IN reqs' = Append(reqs,
          IF ~hasFile THEN Respond(req, [code |-> 400, error |-> "Missing form field 'image'."])
          ELSE IF GeoCacheHit(key, now)
               THEN [req EXCEPT !.pc = "model", !.geo = geoCache[key].value]
               ELSE [req EXCEPT !.pc = "geo", !.rev = Pending, !.poiEp = 1, !.poiRes = Pending,
                                !.geoFetched = TRUE])
  /\ UNCHANGED <<cfg, debug, chats, search, now, jobVars, geoCache, photoContextCache>>

\* POST /api/locate (sync iteration), to its first await
PostLocateSync(hasFile, hasLoc, pt, client) ==
  /\ cfg.deployed = "sync" /\ Len(reqs) < cfg.maxReqs
  /\ cfg.serial => \A r \in ReqIds : reqs[r].pc = "done"
  /\ LET req == NewReq(hasLoc, pt, client)
         key == geoCacheKey(pt.lat, pt.lon, SYNC_RADIUS_M)
     IN reqs' = Append(reqs,
          IF ~hasFile THEN Respond(req, [code |-> 400, error |-> "Missing form field 'image'."])
          ELSE IF ~hasLoc THEN [req EXCEPT !.pc = "model"]
          ELSE IF GeoCacheHit(key, now)
               THEN [req EXCEPT !.pc = "model", !.geo = geoCache[key].value]
               ELSE [req EXCEPT !.pc = "geo", !.rev = Pending, !.poiEp = 1, !.poiRes = Pending,
                                !.geoFetched = TRUE])
  /\ UNCHANGED <<cfg, debug, chats, search, now, jobVars, geoCache, photoContextCache>>

\* Nominatim answered 2xx with JSON
SyncReverseOk(r, json) ==
  /\ cfg.deployed = "sync" /\ r \in ReqIds /\ reqs[r].pc = "geo" /\ reqs[r].rev = Pending
  /\ GeoTaskSettled(r, ReverseFromNominatim(json), reqs[r].poiEp, reqs[r].poiRes)
  /\ UNCHANGED <<cfg, debug, chats, search, now, jobVars, photoContextCache>>

\* Nominatim answered non-2xx or the fetch failed: the .catch gives all nulls
SyncReverseError(r) ==
  /\ cfg.deployed = "sync" /\ r \in ReqIds /\ reqs[r].pc = "geo" /\ reqs[r].rev = Pending
  /\ GeoTaskSettled(r, NullReverse, reqs[r].poiEp, reqs[r].poiRes)
  /\ UNCHANGED <<cfg, debug, chats, search, now, jobVars, photoContextCache>>

\* the NOMINATIM_TIMEOUT_MS timer aborted the fetch
SyncReverseTimeout(r) ==
  /\ cfg.deployed = "sync" /\ r \in ReqIds /\ reqs[r].pc = "geo" /\ reqs[r].rev = Pending
  /\ GeoTaskSettled(r, NullReverse, reqs[r].poiEp, reqs[r].poiRes)
  /\ UNCHANGED <<cfg, debug, chats, search, now, jobVars, photoContextCache>>

\* an Overpass endpoint answered 2xx with elements
SyncOverpassOk(r, els) ==
  /\ cfg.deployed = "sync" /\ r \in ReqIds /\ reqs[r].pc = "geo" /\ reqs[r].poiRes = Pending
  /\ GeoTaskSettled(r, reqs[r].rev, 0, [pois |-> PoisFromElements(els)])
  /\ UNCHANGED <<cfg, debug, chats, search, now, jobVars, photoContextCache>>

\* an endpoint failed: the next is tried; after the last, the .catch of
\* getGeoContext turns the error into []
SyncOverpassFailed(r) ==
  IF reqs[r].poiEp < NumEndpoints
  THEN GeoTaskSettled(r, reqs[r].rev, reqs[r].poiEp + 1, Pending)
  ELSE GeoTaskSettled(r, reqs[r].rev, 0, [pois |-> <<>>])

SyncOverpassError(r) ==
  /\ cfg.deployed = "sync" /\ r \in ReqIds /\ reqs[r].pc = "geo" /\ reqs[r].poiRes = Pending
  /\ SyncOverpassFailed(r)
  /\ UNCHANGED <<cfg, debug, chats, search, now, jobVars, photoContextCache>>

\* the OVERPASS_TIMEOUT_MS timer aborted the fetch
SyncOverpassTimeout(r) ==
  /\ cfg.deployed = "sync" /\ r \in ReqIds /\ reqs[r].pc = "geo" /\ reqs[r].poiRes = Pending
  /\ SyncOverpassFailed(r)
  /\ UNCHANGED <<cfg, debug, chats, search, now, jobVars, photoContextCache>>

\* the GEO_BUDGET_MS timer of withDeadline won the race: geoResult is null
SyncDeadline(r) ==
  /\ cfg.deployed = "sync" /\ r \in ReqIds /\ reqs[r].pc = "geo"
  /\ FinishGeo(r, GeoValue(NullReverse, <<>>))
  /\ UNCHANGED <<cfg, debug, chats, search, now, jobVars, photoContextCache>>

\* the primary client.responses.create resolved with output_text ans
SyncModelOk(r, ans) ==
  /\ cfg.deployed = "sync" /\ r \in ReqIds /\ reqs[r].pc = "model"
  /\ reqs' = [reqs EXCEPT ![r] = [SyncAfterPrimary(reqs[r], ans) EXCEPT !.primary = ans]]
  /\ photoContextCache' = IF Parses(ans)
                          THEN PhotoAfter(photoContextCache, reqs[r].client, ans.json, now)
                          ELSE photoContextCache
  /\ UNCHANGED <<cfg, debug, chats, search, now, jobVars, geoCache>>

\* the primary client.responses.create rejected
SyncModelError(r) ==
  /\ cfg.deployed = "sync" /\ r \in ReqIds /\ reqs[r].pc = "model"
  /\ reqs' = [reqs EXCEPT ![r] = [Respond(reqs[r], Resp500("Server error"))
                                  EXCEPT !.primary = Rejected]]
  /\ UNCHANGED <<cfg, debug, chats, search, now, jobVars, geoCache, photoContextCache>>

\* the repair client.responses.create resolved with output_text ans
SyncRepairOk(r, ans) ==
  /\ cfg.deployed = "sync" /\ r \in ReqIds /\ reqs[r].pc = "repair"
  /\ reqs' = [reqs EXCEPT ![r] = [SyncAfterRepair(reqs[r], ans) EXCEPT !.repair = ans]]
  /\ photoContextCache' = IF Parses(ans)
                          THEN PhotoAfter(photoContextCache, reqs[r].client, ans.json, now)
                          ELSE photoContextCache
  /\ UNCHANGED <<cfg, debug, chats, search, now, jobVars, geoCache>>

\* the repair client.responses.create rejected
SyncRepairError(r) ==
  /\ cfg.deployed = "sync" /\ r \in ReqIds /\ reqs[r].pc = "repair"
  /\ reqs' = [reqs EXCEPT ![r] = [Respond(reqs[r], Resp500("Server error"))
                                  EXCEPT !.repair = Rejected]]
  /\ UNCHANGED <<cfg, debug, chats, search, now, jobVars, geoCache, photoContextCache>>

\* the setInterval sweep of geoCache
SweepGeoCache ==
  /\ cfg.deployed = "sync"
  /\ geoCache' = MapKeep(geoCache, {k \in DOMAIN geoCache : ~(now > geoCache[k].expiresAt)})
  /\ UNCHANGED <<cfg, debug, chats, search, now, jobVars, reqs, photoContextCache>>

\* the setInterval sweep of photoContextCache
SweepPhotoCache ==
  /\ cfg.deployed = "sync"
  /\ photoContextCache' = MapKeep(photoContextCache,
       {k \in DOMAIN photoContextCache : ~(now > photoContextCache[k].expiresAt)})
  /\ UNCHANGED <<cfg, debug, chats, search, now, jobVars, reqs, geoCache>>

\* fetchNearbyPois called on its own: the endpoint answered with els
FetchNearbyPois(els) ==
  /\ cfg.deployed = "poi" /\ search.calls < MaxSearches
  /\ search' = [elements |-> els, pois |-> PoisFromElements(els), calls |-> search.calls + 1]
  /\ UNCHANGED <<cfg, debug, chats, now, jobVars, syncVars>>

\* ====================================================================
\* POST /api/chat (src/server.js lines 547-610; the same test of place and
\* message in src/unnamed/part_000 lines 685-691 and part_001 lines 191-199)
\* ====================================================================
\* String.prototype.trim
Trim(s) ==
  LET keep == {i \in 1..Len(s) : s[i] \notin {" ", "\t", "\n"}} IN
  IF keep = {} THEN <<>>
  ELSE SubSeq(s, CHOOSE i \in keep : \A k \in keep : i <= k,
                 CHOOSE i \in keep : \A k \in keep : k <= i)

\* (req.body?.f || "").toString().trim()
TextField(body, f) == IF f \in DOMAIN body THEN Trim(body[f]) ELSE <<>>

\* /^facts?$|^guide$|^info$|^history$/i.test(message) without the
\* alternatives fact and info (a variant, to show what C22 depends on)
FactsPatternShort(message) ==
  ToLowerCase(message) \in {<<"f","a","c","t","s">>, <<"g","u","i","d","e">>,
                            <<"h","i","s","t","o","r","y">>}

\* /^facts?$|^guide$|^info$|^history$/i.test(message)
FactsPattern(message) ==
  ToLowerCase(message) \in {<<"f","a","c","t">>, <<"f","a","c","t","s">>,
                            <<"g","u","i","d","e">>, <<"i","n","f","o">>,
                            <<"h","i","s","t","o","r","y">>}

\* !message || /.../i.test(message)
IsFacts(message) == message = <<>> \/ FactsPattern(message)

\* what clients send as place and as message (a field may be absent)
ChatPlaces == {<<>>, <<" ">>, <<"L","o","u","v","r","e">>}
ChatMessages ==
  {<<>>, <<" "," ">>,
   <<"f","a","c","t","s">>, <<"F","A","C","T","S">>, <<" ","f","a","c","t","s","\n">>,
   <<"G","u","i","d","e">>, <<"H","i","s","t","o","r","y">>,
   <<"F","a","c","t">>, <<"i","n","f","o">>,
   <<"f","a","c","t","s","s">>, <<"m","y"," ","g","u","i","d","e">>,
   <<"o","p","e","n","?">>}
ChatBodies ==
  {[unused |-> TRUE]}
  \cup {[place |-> p] : p \in ChatPlaces}
  \cup {[message |-> m] : m \in ChatMessages}
  \cup {[place |-> p, message |-> m] : p \in ChatPlaces, m \in ChatMessages}

\* the prompt: its branch, and the question only in the Q&A branch
ChatPrompt(place, message) ==
  IF IsFacts(message) THEN [mode |-> "FACTS", place |-> place]
  ELSE [mode |-> "QA", place |-> place, question |-> message]

\* PostChat without the test of place (a variant, to show what C23 depends
\* on)
PostChatAlwaysAsks(body) ==
  /\ cfg.deployed = "chat" /\ Len(chats) < MaxChats
  /\ LET place == TextField(body, "place")
         message == TextField(body, "message")
     IN chats' = Append(chats,
          [body |-> body, pc |-> "model", prompt |-> ChatPrompt(place, message),
           response |-> NoResp])
  /\ UNCHANGED <<cfg, debug, search, now, jobVars, syncVars>>

\* POST /api/chat, to the await of client.responses.create
PostChat(body) ==
  /\ cfg.deployed = "chat" /\ Len(chats) < MaxChats
  /\ LET place == TextField(body, "place")
         message == TextField(body, "message")
     IN chats' = Append(chats,
          IF place = <<>>
          THEN [body |-> body, pc |-> "done", prompt |-> JSNull,
                response |-> [code |-> 400, error |-> "Missing JSON field 'place'."]]
          ELSE [body |-> body, pc |-> "model", prompt |-> ChatPrompt(place, message),
                response |-> NoResp])
  /\ UNCHANGED <<cfg, debug, search, now, jobVars, syncVars>>

\* client.responses.create resolved: res.json({ text: response.output_text })
ChatModelOk(c, text) ==
  /\ c \in 1..Len(chats) /\ chats[c].pc = "model"
  /\ chats' = [chats EXCEPT ![c] = [@ EXCEPT !.pc = "done",
                                             !.response = [code |-> 200, text |-> text]]]
  /\ UNCHANGED <<cfg, debug, search, now, jobVars, syncVars>>

\* client.responses.create rejected: the catch answers 500
ChatModelError(c) ==
  /\ c \in 1..Len(chats) /\ chats[c].pc = "model"
  /\ chats' = [chats EXCEPT ![c] = [@ EXCEPT !.pc = "done", !.response = Resp500("Server error")]]
  /\ UNCHANGED <<cfg, debug, search, now, jobVars, syncVars>>

\* ------------------------------------ POST /api/chat of part_000
\* getPhotoContext without the test of expiresAt (a variant, to show what
\* C39 depends on)
getPhotoContextAnyAge(cache, client, t) ==
  IF client \notin DOMAIN cache THEN Null ELSE cache[client].photoContext

\* getPhotoContext(req): what it returns
getPhotoContext(cache, client, t) ==
  IF client \notin DOMAIN cache THEN Null
  ELSE IF t > cache[client].expiresAt THEN Null
  ELSE cache[client].photoContext

\* getPhotoContext(req): the cache it leaves, the entry deleted when it is
\* found expired
AfterGetPhotoContext(cache, client, t) ==
  IF client \in DOMAIN cache /\ t > cache[client].expiresAt
  THEN MapKeep(cache, DOMAIN cache \ {client})
  ELSE cache

\* photoContext || "(not available)"
ContextLine(photoContext) ==
  IF photoContext \in {Null, ""} THEN "(not available)" ELSE photoContext

\* POST /api/chat of part_000, to the await of client.responses.create: the
\* prompt carries the photo context cached for the client
PostChatSync(body, client) ==
  /\ cfg.deployed = "sync" /\ Len(chats) < cfg.maxChats
  /\ LET place == TextField(body, "place")
         message == TextField(body, "message")
     IN IF place = <<>>
        THEN /\ chats' = Append(chats,
                  [body |-> body, client |-> client, pc |-> "done", prompt |-> JSNull,
                   response |-> [code |-> 400, error |-> "Missing JSON field 'place'."]])
             /\ UNCHANGED photoContextCache
        ELSE /\ chats' = Append(chats,
                  [body |-> body, client |-> client, pc |-> "model",
                   prompt |-> [mode |-> IF IsFacts(message) THEN "FACTS" ELSE "QA",
                               place |-> place, question |-> message,
                               photoContext |->
                                 ContextLine(getPhotoContext(photoContextCache, client, now))],
                   response |-> NoResp])
             /\ photoContextCache' = AfterGetPhotoContext(photoContextCache, client, now)
  /\ UNCHANGED <<cfg, debug, search, now, jobVars, reqs, geoCache>>

\* ====================================================================
\* The debug endpoints (src/server.js; GET /debug/overpass of
\* src/unnamed/part_000)
\* ====================================================================
\* a request of a debug endpoint: the x-debug-token header it carried ("" for
\* none), where its handler stands ("upstream": at the await of the probe),
\* its response
DebugReq(endpoint, got, pc, response) ==
  [endpoint |-> endpoint, got |-> got, pc |-> pc, response |-> response]

\* requireDebugAuth without the comparison (a variant, to show what C34
\* depends on)
requireDebugAuthOpen(got) == TRUE

\* requireDebugAuth calls next(): no token is configured, or the header
\* equals it
requireDebugAuth(got) == cfg.debugToken = "" \/ got = cfg.debugToken

Unauthorized == [code |-> 401, error |-> "Unauthorized debug token"]

\* the handlers of server.js behind requireDebugAuth; `missing` is the 400
\* of the handler for a request without its input (JSNull: the handler has
\* none), `then` the request when the handler goes on
Guarded(endpoint, got, missing, then) ==
  IF ~requireDebugAuth(got) THEN DebugReq(endpoint, got, "done", Unauthorized)
  ELSE IF missing # JSNull THEN DebugReq(endpoint, got, "done", missing)
  ELSE then

DebugArrives(d) ==
  /\ Len(debug) < cfg.maxDebug
  /\ debug' = Append(debug, d)
  /\ UNCHANGED <<cfg, now, jobVars, syncVars, chats, search>>

Missing(msg) == [code |-> 400, ok |-> FALSE, error |-> msg]

\* GET /debug/overpass of server.js, up to the await of
\* fetchOverpassWithFallback
DebugOverpass(got, hasLoc) ==
  /\ cfg.deployed = "job"
  /\ DebugArrives(Guarded("overpass", got,
                          IF hasLoc THEN JSNull ELSE Missing("Missing lat/lon"),
                          DebugReq("overpass", got, "upstream", NoResp)))

\* GET /debug/reverse, up to the await of reverseGeocode
DebugReverse(got, hasLoc) ==
  /\ cfg.deployed = "job"
  /\ DebugArrives(Guarded("reverse", got,
                          IF hasLoc THEN JSNull ELSE Missing("Missing lat/lon"),
                          DebugReq("reverse", got, "upstream", NoResp)))

\* POST /debug/openai_text, up to the await of client.responses.create
DebugOpenAIText(got, hasPrompt) ==
  /\ cfg.deployed = "job"
  /\ DebugArrives(Guarded("openai_text", got,
                          IF hasPrompt THEN JSNull ELSE Missing("Missing prompt"),
                          DebugReq("openai_text", got, "upstream", NoResp)))

\* job.error || null
ErrorOrNull(job) == IF job.error = "" THEN Null ELSE job.error

\* the body of GET /debug/job for a job found in the store
DebugJobView(id) ==
  LET job == jobs[id] IN
  [code |-> 200, ok |-> TRUE, jobId |-> id, status |-> job.status,
   error |-> ErrorOrNull(job), createdAt |-> job.createdAt,
   geo |-> [reverse |-> job.geo.reverse, radiusM |-> job.geo.radiusM,
            poisCount |-> Len(job.geo.pois), samplePois |-> Slice0(job.geo.pois, 10)],
   trace |-> SliceLast(job.trace, TRACE_VIEW),
   promptPreview |-> job.prompt]

\* GET /debug/job?jobId=id
DebugJob(got, id) ==
  /\ cfg.deployed = "job"
  /\ DebugArrives(Guarded("job", got,
                          IF id \in locateJobs THEN JSNull
                          ELSE [code |-> 404, ok |-> FALSE, error |-> "Unknown jobId"],
                          DebugReq("job", got, "done", DebugJobView(id))))

\* GET /debug/overpass of part_000, up to the await of fetch: no middleware
\* and no test of lat and lon stand before it
DebugOverpassSync(got) ==
  /\ cfg.deployed = "sync"
  /\ DebugArrives(DebugReq("overpass", got, "upstream", NoResp))

\* elements.map((e) => e?.tags?.name).filter(Boolean)
RECURSIVE TagNames(_)
TagNames(els) ==
  IF els = <<>> THEN <<>>
  ELSE (IF HasTag(Head(els).tags, "name") /\ Head(els).tags.name # <<>>
        THEN <<Head(els).tags.name>> ELSE <<>>) \o TagNames(Tail(els))

\* what the handler of d answers when its probe resolved: of server.js, with
\* the elements, the reverse or the text the probe returned; of part_000,
\* with the HTTP status of the one endpoint it asks
DebugBodies(d) ==
  IF cfg.deployed = "sync"
  THEN {[code |-> 200, ok |-> TRUE, status |-> 200],
        [code |-> 200, ok |-> FALSE, status |-> 504]}
  ELSE IF d.endpoint = "overpass"
  THEN {[code |-> 200, ok |-> TRUE, radiusM |-> OVERPASS_RADIUS_M, elements |-> Len(els),
         sampleNames |-> Slice0(TagNames(els), 20)] : els \in {ElemsFew}}
  ELSE IF d.endpoint = "reverse"
  THEN {[code |-> 200, ok |-> TRUE, reverse |-> ReverseFromNominatim(NomFull)]}
  ELSE {[code |-> 200, ok |-> TRUE, text |-> "pong"]}

\* the probe of debug request d resolved
DebugProbeOk(d) ==
  /\ d \in 1..Len(debug) /\ debug[d].pc = "upstream"
  /\ \E body \in DebugBodies(debug[d]) :
       debug' = [debug EXCEPT ![d] = [@ EXCEPT !.pc = "done", !.response = body]]
  /\ UNCHANGED <<cfg, now, jobVars, syncVars, chats, search>>

\* the probe of debug request d threw: the catch block of the handler
DebugProbeError(d, msg) ==
  /\ d \in 1..Len(debug) /\ debug[d].pc = "upstream"
  /\ debug' = [debug EXCEPT ![d] = [@ EXCEPT !.pc = "done", !.response =
                 [code |-> IF cfg.deployed = "sync" THEN 500 ELSE 200,
                  ok |-> FALSE, error |-> ErrorText(msg)]]]
  /\ UNCHANGED <<cfg, now, jobVars, syncVars, chats, search>>

\* ====================================================================
\* The run
\* ====================================================================
\* time passes
Tick ==
  /\ now < cfg.maxTicks * TickMs
  /\ now' = now + TickMs
  /\ UNCHANGED <<cfg, debug, chats, search, jobVars, syncVars>>

vars == <<cfg, now, jobVars, syncVars, chats, search, debug>>

JobRun == [deployed |-> "job", maxJobs |-> MaxJobs, maxReqs |-> 0, maxTicks |-> MaxTicks,
           points |-> {PtA}, clients |-> {"c1"}, answers |-> ModelAnswers,
            serial |-> FALSE]
SyncRun == [deployed |-> "sync", maxJobs |-> 0, maxReqs |-> MaxReqs, maxTicks |-> MaxTicks,
            points |-> {PtA}, clients |-> {"c1"}, answers |-> ModelAnswers,
            serial |-> FALSE]

InitWith(c) ==
  /\ cfg = c
  /\ now = 0
  /\ jobs = <<>>
  /\ locateJobs = {}
  /\ run = <<>>
  /\ termRead = [id \in 1..c.maxJobs |-> NoView]
  /\ lastPost = NoPost
  /\ reqs = <<>>
  /\ geoCache = EmptyMap
  /\ photoContextCache = EmptyMap
  /\ chats = <<>>
  /\ search = [elements |-> <<>>, pois |-> <<>>, calls |-> 0]
  /\ debug = <<>>

Init == \E c \in {JobRun, SyncRun} : InitWith(c)

NextJob ==
  \/ \E hasFile \in BOOLEAN, hasLoc \in BOOLEAN : PostLocateJob(hasFile, hasLoc)
  \/ \E j \in 1..cfg.maxJobs : StartJob(j)
  \/ \E j \in 1..cfg.maxJobs, json \in NominatimAnswers : NominatimOk(j, json)
  \/ \E j \in 1..cfg.maxJobs : NominatimError(j)
  \/ \E j \in 1..cfg.maxJobs : NominatimTimeout(j)
  \/ \E j \in 1..cfg.maxJobs, json \in BigDataCloudAnswers : FallbackOk(j, json)
  \/ \E j \in 1..cfg.maxJobs : FallbackError(j, ErrFallbackHttp)
  \/ \E j \in 1..cfg.maxJobs : FallbackTimeout(j)
  \/ \E j \in 1..cfg.maxJobs, els \in OverpassAnswers : OverpassOk(j, els)
  \/ \E j \in 1..cfg.maxJobs : OverpassError(j, ErrOverpassHttp)
  \/ \E j \in 1..cfg.maxJobs : OverpassTimeout(j)
  \/ \E j \in 1..cfg.maxJobs, ans \in JobModelAnswers : ModelAnswers1(j, ans)
  \/ \E j \in 1..cfg.maxJobs, msg \in {ErrModelApi, ErrEmpty} : ModelError(j, msg)
  \/ \E id \in 1..cfg.maxJobs : GetLocateResult(id)
  \/ SweepJobs

NextSync ==
  \/ \E hasFile \in BOOLEAN, hasLoc \in BOOLEAN, pt \in cfg.points, client \in cfg.clients :
       PostLocateSync(hasFile, hasLoc, pt, client)
  \/ \E r \in 1..cfg.maxReqs, json \in NominatimAnswers : SyncReverseOk(r, json)
  \/ \E r \in 1..cfg.maxReqs : SyncReverseError(r)
  \/ \E r \in 1..cfg.maxReqs : SyncReverseTimeout(r)
  \/ \E r \in 1..cfg.maxReqs, els \in SyncOverpassAnswers : SyncOverpassOk(r, els)
  \/ \E r \in 1..cfg.maxReqs : SyncOverpassError(r)
  \/ \E r \in 1..cfg.maxReqs : SyncOverpassTimeout(r)
  \/ \E r \in 1..cfg.maxReqs : SyncDeadline(r)
  \/ \E r \in 1..cfg.maxReqs, ans \in cfg.answers : SyncModelOk(r, ans)
  \/ \E r \in 1..cfg.maxReqs : SyncModelError(r)
  \/ \E r \in 1..cfg.maxReqs, ans \in cfg.answers : SyncRepairOk(r, ans)
  \/ \E r \in 1..cfg.maxReqs : SyncRepairError(r)
  \/ SweepGeoCache
  \/ SweepPhotoCache

Next == NextJob \/ NextSync \/ Tick

Spec == Init /\ [][Next]_vars

\* the sync iteration with several requests at nearby points, to exercise
\* geoCache: the client sends a request only after the previous one was
\* answered (serial), and the model answers are cut to the one that starts a
\* repair
CacheRun == [deployed |-> "sync", maxJobs |-> 0, maxReqs |-> MaxCacheReqs,
             maxTicks |-> MaxCacheTicks, points |-> Points, clients |-> {"c1"},
             answers |-> {AnsOther}, serial |-> TRUE]

CacheInit == InitWith(CacheRun)

CacheNext == NextSync \/ Tick

CacheSpec == CacheInit /\ [][CacheNext]_vars

\* the sync iteration with requests in flight together at two points of one
\* cache key, the clock standing still
RaceRun == [deployed |-> "sync", maxJobs |-> 0, maxReqs |-> MaxCacheReqs, maxTicks |-> 0,
            points |-> {PtA, PtB}, clients |-> {"c1"}, answers |-> {AnsOther},
            serial |-> FALSE]

RaceSpec == InitWith(RaceRun) /\ [][NextSync]_vars

\* POST /api/chat alone
ChatRun == [deployed |-> "chat", maxJobs |-> 0, maxReqs |-> 0, maxTicks |-> 0,
            points |-> {}, clients |-> {}, answers |-> {}, serial |-> FALSE]

NextChat ==
  \/ \E body \in ChatBodies : PostChat(body)
  \/ \E c \in 1..MaxChats, text \in {"Built in 1889.", ""} : ChatModelOk(c, text)
  \/ \E c \in 1..MaxChats : ChatModelError(c)

ChatSpec == InitWith(ChatRun) /\ [][NextChat]_vars

\* fetchNearbyPois alone
PoiRun == [deployed |-> "poi", maxJobs |-> 0, maxReqs |-> 0, maxTicks |-> 0,
           points |-> {}, clients |-> {}, answers |-> {}, serial |-> FALSE]

PoiSpec ==
  /\ InitWith(PoiRun)
  /\ [][\E els \in PoiScenarioAnswers : FetchNearbyPois(els)]_vars

\* every endpoint that takes client input: a run of the job iteration, of
\* the sync iteration or of POST /api/chat
EndpointsSpec ==
  /\ \E c \in {JobRun, SyncRun, ChatRun} : InitWith(c)
  /\ [][Next \/ NextChat]_vars

\* the timers of fetchWithTimeout fire and the setImmediate callback runs;
\* nothing makes an upstream service answer
\* the upstream services of a run with jobs in flight together: what each
\* request is answered with is fixed by the place of the request in the
\* pipeline (nom, fb: the two reverse providers; the first `down` Overpass
\* endpoints fail in the way `how`, the others answer `els`; model: the
\* output text, or Rejected)
PairWorlds ==
  {w \in [nom : {"ok", "error", "timeout"}, fb : {"ok", "error", "timeout"},
          down : {0, NumEndpoints - 1, NumEndpoints}, how : {"error", "timeout"},
          els : OverpassAnswers,
          model : {AnsSuper, AnsNullItem, AnsGarbage, Rejected}] :
     /\ (w.nom = "ok" => w.fb = "ok")
     /\ (w.nom = "timeout" => w.fb = "ok")
     /\ (w.down = 0 => w.how = "error")}

PairRun(w) ==
  [deployed |-> "job", maxJobs |-> MaxPairJobs, maxReqs |-> 0, maxTicks |-> 0,
   points |-> {PtA}, clients |-> {"c1"}, answers |-> {}, serial |-> FALSE, world |-> w]

\* the endpoint job j is asking answers in this world
EndpointUp(j) == j \in JobIds /\ run[j].ep > cfg.world.down

\* the job iteration with the upstream answers of cfg.world, the clock
\* standing still
PairNext ==
  \/ PostLocateJob(TRUE, TRUE)
  \/ \E j \in 1..cfg.maxJobs : StartJob(j)
  \/ \E j \in 1..cfg.maxJobs : cfg.world.nom = "ok" /\ NominatimOk(j, NomFull)
  \/ \E j \in 1..cfg.maxJobs : cfg.world.nom = "error" /\ NominatimError(j)
  \/ \E j \in 1..cfg.maxJobs : cfg.world.nom = "timeout" /\ NominatimTimeout(j)
  \/ \E j \in 1..cfg.maxJobs : cfg.world.fb = "ok" /\ FallbackOk(j, BdcFull)
  \/ \E j \in 1..cfg.maxJobs : cfg.world.fb = "error" /\ FallbackError(j, ErrFallbackHttp)
  \/ \E j \in 1..cfg.maxJobs : cfg.world.fb = "timeout" /\ FallbackTimeout(j)
  \/ \E j \in 1..cfg.maxJobs : EndpointUp(j) /\ OverpassOk(j, cfg.world.els)
  \/ \E j \in 1..cfg.maxJobs :
       j \in JobIds /\ ~EndpointUp(j) /\ cfg.world.how = "error"
       /\ OverpassError(j, ErrOverpassHttp)
  \/ \E j \in 1..cfg.maxJobs :
       j \in JobIds /\ ~EndpointUp(j) /\ cfg.world.how = "timeout" /\ OverpassTimeout(j)
  \/ \E j \in 1..cfg.maxJobs :
       cfg.world.model # Rejected /\ ModelAnswers1(j, cfg.world.model)
  \/ \E j \in 1..cfg.maxJobs : cfg.world.model = Rejected /\ ModelError(j, ErrModelApi)

PairSpec == (\E w \in PairWorlds : InitWith(PairRun(w))) /\ [][PairNext]_vars

\* the headers a debug request carries: none, the token of the debug
\* scenario, another value
DebugToken == "s3cret"
DebugHeaders == {"", DebugToken, "guess"}

\* the job iteration, or part_000, with requests to the debug endpoints, the
\* token configured or not, the clock standing still
DebugRun(deployed, token) ==
  [deployed |-> deployed, maxJobs |-> IF deployed = "job" THEN MaxJobs ELSE 0, maxReqs |-> 0,
   maxTicks |-> 0, points |-> {PtA}, clients |-> {"c1"}, answers |-> {}, serial |-> FALSE,
   debugToken |-> token, maxDebug |-> MaxDebugReqs]

NextDebug ==
  \/ \E got \in DebugHeaders, hasLoc \in BOOLEAN : DebugOverpass(got, hasLoc)
  \/ \E got \in DebugHeaders, hasLoc \in BOOLEAN : DebugReverse(got, hasLoc)
  \/ \E got \in DebugHeaders, hasPrompt \in BOOLEAN : DebugOpenAIText(got, hasPrompt)
  \/ \E got \in DebugHeaders, id \in 1..MaxJobs : DebugJob(got, id)
  \/ \E got \in DebugHeaders : DebugOverpassSync(got)
  \/ \E d \in 1..cfg.maxDebug : DebugProbeOk(d)
  \/ \E d \in 1..cfg.maxDebug : DebugProbeError(d, ErrOverpassHttp)

DebugSpec ==
  /\ \E deployed \in {"job", "sync"}, token \in {"", DebugToken} :
       InitWith(DebugRun(deployed, token))
  /\ [][NextJob \/ NextDebug]_vars

\* an answer with a photo context of its own and two candidates
AnsShortB == Json("ctxB", Arr(<<Cand(NameOther, WhyPlain, 70), Cand(NameOther, WhyPlain, 20)>>))

\* part_000 with a locate request and a chat request, each of one of two
\* clients, and the clock: the model answers are one that starts a repair,
\* one that is accepted, and two without three candidates
PhotoRun ==
  [deployed |-> "sync", maxJobs |-> 0, maxReqs |-> MaxReqs, maxTicks |-> MaxCacheTicks,
   points |-> {PtA}, clients |-> {"c1", "c2"},
   answers |-> {AnsOther, AnsSub, AnsShortB, AnsAbsent}, serial |-> TRUE,
   maxChats |-> MaxPhotoChats]

NextPhoto ==
  \/ NextSync
  \/ Tick
  \/ \E body \in {[unused |-> TRUE], [place |-> <<"L","o","u","v","r","e">>]},
        client \in cfg.clients : PostChatSync(body, client)
  \/ \E c \in 1..cfg.maxChats : ChatModelOk(c, "Built in 1889.")
  \/ \E c \in 1..cfg.maxChats : ChatModelError(c)

PhotoSpec == InitWith(PhotoRun) /\ [][NextPhoto]_vars

\* part_000 with two locate requests, one after the other, and a chat
\* request, each of one of two clients, and the clock: the model answers are
\* one that starts a repair and one that is accepted, with different photo
\* contexts
TtlRun ==
  [deployed |-> "sync", maxJobs |-> 0, maxReqs |-> MaxCacheReqs, maxTicks |-> MaxCacheTicks,
   points |-> {PtA}, clients |-> {"c1", "c2"}, answers |-> {AnsOther, AnsSub},
   serial |-> TRUE, maxChats |-> MaxPhotoChats]

TtlSpec == InitWith(TtlRun) /\ [][NextPhoto]_vars

FairSpec ==
  /\ Init /\ [][Next]_vars
  /\ \A j \in 1..MaxJobs :
       /\ WF_vars(StartJob(j))
       /\ WF_vars(NominatimTimeout(j))
       /\ WF_vars(FallbackTimeout(j))
       /\ WF_vars(OverpassTimeout(j))

\* ====================================================================
\* Properties
\* ====================================================================
Transitions ==
  {<<"pending", "geo">>, <<"geo", "openai">>, <<"openai", "done">>,
   <<"pending", "error">>, <<"geo", "error">>, <<"openai", "error">>}

LegalHistory(h) ==
  /\ h[1] = "pending"
  /\ \A i \in 1..(Len(h) - 1) : <<h[i], h[i + 1]>> \in Transitions

\* C1: the values assigned to a job's status follow pending -> geo -> openai
\* -> done, or pending/geo/openai -> error; nothing follows done or error.
C1_StatusPath == \A j \in JobIds : LegalHistory(jobs[j].hist)

\* C2: once a poll has returned done or error for a job, every read of that
\* job while it is in the store returns that same answer.
C2_TerminalReadsStable ==
  \A j \in 1..cfg.maxJobs :
    (termRead[j] # NoView /\ j \in locateJobs) => LocateResultView(j) = termRead[j]

\* a poll returned done, time has passed since, and the job is still stored
C2_ReadDoneThenLater ==
  \E j \in locateJobs :
    /\ termRead[j] # NoView /\ termRead[j].status = "done"
    /\ now > jobs[j].createdAt

\* the exception that ended the job left fetchNearbyPois: the trace has an
\* overpass_start with no overpass_done, then error
PoiLookupThrew(job) ==
  /\ Len(job.trace) >= 2
  /\ job.trace[Len(job.trace)] = "error"
  /\ job.trace[Len(job.trace) - 1] = "overpass_start"

\* C3: a POI lookup that failed on every endpoint never ends a job in status
\* error.
C3_PoiFailureDegrades ==
  \A j \in JobIds : ~(jobs[j].status = "error" /\ PoiLookupThrew(jobs[j]))

\* the exception that ended the job left reverseGeocode
ReverseThrew(job) == job.trace = <<"geo_start", "error">>

\* C4: a reverse geocoding whose primary and secondary providers both failed
\* never ends a job in status error (it gives the all-null result instead).
C4_ReverseFailureDegrades ==
  \A j \in JobIds : ~(jobs[j].status = "error" /\ ReverseThrew(jobs[j]))

\* C5: every job that has been created eventually has status done or error,
\* given that timers fire and queued callbacks run.
C5_EveryJobEnds ==
  \A j \in 1..MaxJobs :
    (j \in JobIds) ~> (j \in JobIds /\ jobs[j].status \in {"done", "error"})

\* the model call resolved with an answer
Returned(ans) == ans \notin {NoAnswer, Rejected}

\* the answer is JSON with an array of exactly 3 candidates
Exactly3(ans) ==
  /\ Parses(ans) /\ HasCandidates(ans.json)
  /\ ans.json.candidates.kind = "array" /\ Len(ans.json.candidates.items) = 3

\* C6: when the repair answer is unparseable, of the wrong shape or not of 3
\* candidates, and the primary answer had exactly 3 candidates, the response
\* is 200 with the candidates of the primary answer.
C6_InvalidRepairFallsBack ==
  \A r \in ReqIds :
    (/\ reqs[r].pc = "done"
     /\ Returned(reqs[r].repair) /\ ~Exactly3(reqs[r].repair)
     /\ Exactly3(reqs[r].primary))
    => reqs[r].response = Resp200(reqs[r].primary.json.candidates)

\* the candidates meet the declared schema
ContractOk(cands) ==
  /\ cands.kind = "array" /\ Len(cands.items) = 3
  /\ \A i \in 1..Len(cands.items) : WellFormedCandidate(cands.items[i])

\* C7: no job is done, and no request is answered 200, with candidates that
\* miss a required field, have a confidence outside [0,1] or are not 3.
C7_ContractViolationsFail ==
  /\ \A j \in JobIds : jobs[j].status = "done" => ContractOk(jobs[j].result.candidates)
  /\ \A r \in ReqIds :
       reqs[r].response.code = 200 => ContractOk(reqs[r].response.candidates)

Array3(cands) == cands.kind = "array" /\ Len(cands.items) = 3

\* C8: every read of a job that answers done, and every 200 of the sync
\* POST /api/locate, carries an array of exactly 3 candidates.
C8_SuccessHasThree ==
  /\ \A j \in locateJobs :
       LocateResultView(j).status = "done" => Array3(LocateResultView(j).candidates)
  /\ \A r \in ReqIds :
       reqs[r].response.code = 200 => Array3(reqs[r].response.candidates)

\* a poll of a stored job answers done
C8_JobReadDone ==
  \E j \in locateJobs : LocateResultView(j).status = "done" /\ run[j].pc = "finished"

\* the candidates of an answer, as a reader of the answer sees them
CandidatesOf(ans) ==
  IF Parses(ans) /\ HasCandidates(ans.json) /\ ans.json.candidates.kind = "array"
  THEN ans.json.candidates.items ELSE <<>>

\* some candidate that has a name has one that contains, or is contained in,
\* a POI name, case-insensitively
NamedMatch(geo, items) ==
  \E i \in 1..Len(items) : \E p \in 1..Len(geo.pois) :
    /\ items[i] # JSNull /\ "name" \in DOMAIN items[i]
    /\ \/ Includes(ToLowerCase(items[i].name), ToLowerCase(geo.pois[p].name))
       \/ Includes(ToLowerCase(geo.pois[p].name), ToLowerCase(items[i].name))

\* NamedMatch, where a candidate without a name counts as having the empty
\* name, which every POI name contains
BlankMatch(geo, items) ==
  \/ NamedMatch(geo, items)
  \/ \E i \in 1..Len(items) : items[i] = JSNull \/ "name" \notin DOMAIN items[i]

\* some candidate's why contains the phrase, case-insensitively
WhyConflictIn(items) ==
  \E i \in 1..Len(items) :
    /\ items[i] # JSNull /\ "why" \in DOMAIN items[i]
    /\ Includes(ToLowerCase(items[i].why), ConflictPhrase)

Readable(ans) ==
  Parses(ans) /\ (HasCandidates(ans.json) => ans.json.candidates.kind = "array")

C10_ModelAfterGeo ==
  \A j \in JobIds :
    run[j].pc = "openai" =>
      /\ jobs[j].status = "openai"
      /\ jobs[j].geo.reverse # JSNull
      /\ Len(jobs[j].trace) >= 2
      /\ jobs[j].trace[Len(jobs[j].trace)] = "openai_start"
      /\ jobs[j].trace[Len(jobs[j].trace) - 1] = "overpass_done"
      /\ jobs[j].prompt # JSNull
      /\ jobs[j].prompt.pois = Slice0(jobs[j].geo.pois, PROMPT_POIS)
      /\ jobs[j].prompt.radiusM = jobs[j].geo.radiusM
      /\ jobs[j].prompt.area = jobs[j].geo.reverse.displayName

\* the model call of a job with POIs is pending
C10_ModelPendingWithPois ==
  \E j \in JobIds : run[j].pc = "openai" /\ Len(jobs[j].geo.pois) > 0

\* an upstream call of the job is in flight
Fetching(r) == r.pc \in {"nominatim", "fallback", "overpass", "openai"}

\* C11: the step that creates a job stores it and answers with its jobId
\* while no upstream call of the job has begun (the pipeline is only queued),
\* and the queued pipeline can start whatever became of the request.
C11_RespondsBeforeUpstream ==
  /\ [][\A id \in 1..MaxJobs :
          (id \notin JobIds /\ id \in JobIds') =>
            /\ id \in locateJobs'
            /\ lastPost' = [code |-> 200, jobId |-> id]
            /\ ~Fetching(run'[id])
            /\ jobs'[id].status = "pending" /\ jobs'[id].trace = <<>>
            /\ jobs'[id].geo.reverse = JSNull]_vars
  /\ [](\A id \in JobIds : run[id].pc = "immediate" => ENABLED StartJob(id))

\* the jobId has been returned and the pipeline has not started
C11_CreatedNotStarted ==
  \E id \in JobIds :
    lastPost = [code |-> 200, jobId |-> id] /\ run[id].pc = "immediate"

PendingView == [code |-> 200, status |-> "pending", reverse |-> <<>>, poisCount |-> 0]

\* C12: right after the step that returned a jobId a read of it answers 200
\* pending; while the pipeline has not run and the job is stored, a read never
\* answers 404, done or error.
C12_FreshJobIsPending ==
  /\ [][\A id \in 1..MaxJobs :
          (id \notin JobIds /\ id \in JobIds') => LocateResultView(id)' = PendingView]_vars
  /\ [](\A id \in locateJobs : run[id].pc = "immediate" => LocateResultView(id) = PendingView)

\* a stored job whose pipeline has not run, read as pending
C12_FreshRead ==
  \E id \in locateJobs :
    /\ run[id].pc = "immediate" /\ lastPost.code = 200
    /\ LocateResultView(id).status = "pending"

\* C13: a read of an id that is not in the store answers 404 Unknown jobId;
\* a read of a stored job answers 200, with a non-terminal status while the
\* pipeline is running.
C13_UnknownIsNotRunning ==
  \A id \in 1..(MaxJobs + 1) :
    /\ id \notin locateJobs => LocateResultView(id) = UnknownJobView
    /\ id \in locateJobs =>
         /\ LocateResultView(id).code = 200
         /\ run[id].pc # "finished" =>
              LocateResultView(id).status \in {"pending", "geo", "openai"}

\* one id is of a running stored job and another was never created
C13_RunningAndUnknown ==
  \E id \in locateJobs :
    /\ Fetching(run[id])
    /\ LocateResultView(id).code = 200
    /\ LocateResultView(Len(jobs) + 1).code = 404

\* C14: the sweep keeps no stored job older than JOB_TTL_MS, whatever its
\* status, and a removed job is never stored again, so that every later read
\* of its id answers 404.
C14_SweepRemovesExpired ==
  /\ [](\A id \in locateJobs :
          now - jobs[id].createdAt > JOB_TTL_MS => id \notin SweepKeeps)
  /\ [][SweepJobs => locateJobs' = SweepKeeps]_vars
  /\ [][\A id \in JobIds : id \notin locateJobs => id \notin locateJobs']_vars
  /\ [](\A id \in JobIds : id \notin locateJobs => LocateResultView(id) = UnknownJobView)

\* a job was swept while its pipeline was running
C14_SweptWhileRunning ==
  \E id \in JobIds :
    /\ id \notin locateJobs
    /\ jobs[id].status \in {"pending", "geo", "openai"}
    /\ now - jobs[id].createdAt > JOB_TTL_MS

\* C15: a job whose status is done or error holds no image payload.
C15_PayloadDiscarded ==
  \A id \in JobIds : jobs[id].status \in {"done", "error"} => jobs[id].dataUrl = Null

\* one job has ended in done or error after reverse geocoding returned
C15_EndedAfterModel ==
  \E id \in JobIds :
    /\ jobs[id].status \in {"done", "error"}
    /\ jobs[id].dataUrl = Null
    /\ jobs[id].geo.reverse # JSNull

\* C16: a stored job that failed is read as 200 {status: "error", error},
\* with the non-empty message of the job; the request that created it was
\* answered 200 with its jobId.
C16_FailureReadAs200 ==
  /\ [](\A id \in locateJobs :
          jobs[id].status = "error" =>
            /\ LocateResultView(id).code = 200
            /\ LocateResultView(id).status = "error"
            /\ LocateResultView(id).error = jobs[id].error
            /\ LocateResultView(id).error \notin {"", Null})
  /\ [][\A id \in 1..MaxJobs :
          (id \notin JobIds /\ id \in JobIds') => lastPost' = [code |-> 200, jobId |-> id]]_vars

\* a stored job failed with an error whose message was empty
C16_FailedWithEmptyMessage ==
  \E id \in locateJobs :
    jobs[id].status = "error" /\ jobs[id].error = "Error"

\* the number of POIs the most recently completed POI query of the job
\* returned: the local `pois` of runLocateJob during the radius loop, the
\* stored list after it
ObtainedSoFar(id) ==
  IF run[id].pc = "overpass" THEN Len(run[id].pois)
  ELSE IF run[id].pc = "openai" THEN Len(jobs[id].geo.pois)
  ELSE 0

\* C17: a read of a running job carries the display name once reverse
\* geocoding has returned, and a poisCount equal to the number of POIs of the
\* most recently completed POI query.
C17_ProgressSoFar ==
  \A id \in locateJobs :
    jobs[id].status \in {"pending", "geo", "openai"} =>
      /\ LocateResultView(id).reverse =
           IF run[id].pc \in {"overpass", "openai"}
           THEN jobs[id].geo.reverse.displayName ELSE <<>>
      /\ LocateResultView(id).poisCount = ObtainedSoFar(id)

\* C18: when the radius loop of a job ends, the radius stored in the geo
\* context is the radius of the query that just returned and the stored POIs
\* are its answer (returned at a narrower radius only if enough); the prompt
\* names that radius; in the sync iteration every geo context, returned or
\* cached, has the one radius that is ever queried.
C18_RadiusOfStoredPois ==
  /\ [][\A id \in JobIds :
          (run[id].pc = "overpass" /\ run'[id].pc = "openai") =>
            /\ jobs'[id].geo.radiusM = Radii[run[id].rIdx]
            /\ \E els \in OverpassAnswers : jobs'[id].geo.pois = PoisFromElements(els)
            /\ run[id].rIdx < Len(Radii) => Len(jobs'[id].geo.pois) >= POI_TARGET_COUNT]_vars
  /\ [](\A id \in JobIds :
          run[id].pc = "openai" => jobs[id].prompt.radiusM = jobs[id].geo.radiusM)
  /\ [](\A r \in ReqIds : reqs[r].geo # JSNull => reqs[r].geo.radiusM = SYNC_RADIUS_M)
  /\ [](\A k \in DOMAIN geoCache :
          k[3] = SYNC_RADIUS_M /\ geoCache[k].value.radiusM = SYNC_RADIUS_M)

\* the model call of a job is pending after the radius was widened twice
C18_Escalated ==
  \E id \in JobIds :
    /\ run[id].pc = "openai"
    /\ jobs[id].geo.radiusM = OVERPASS_RADIUS_M * 4
    /\ Len(jobs[id].geo.pois) > 0

\* the coordinates of two requests agree when rounded to 5 decimals
SameRounded(p, q) ==
  /\ (p.lat + 5) \div 10 = (q.lat + 5) \div 10
  /\ (p.lon + 5) \div 10 = (q.lon + 5) \div 10

\* getGeoContext fetched for the request and has returned
Built(q) == q.geoFetched /\ q.geoDoneAt >= 0

\* the request that arrives in this step calls getGeoContext
Arrives(r2) ==
  /\ r2 = Len(reqs) + 1 /\ Len(reqs') = r2
  /\ reqs'[r2].hasLoc /\ reqs'[r2].response = NoResp

\* C19: a call of getGeoContext that starts after the one fetch for its
\* rounded coordinates has returned, and less than GEO_TTL_MS later, returns
\* the value that fetch returned and issues no upstream request, then or
\* later.
C19_CacheIdempotent ==
  /\ [][\A r1 \in ReqIds :
          (/\ Arrives(Len(reqs) + 1)
           /\ Built(reqs[r1]) /\ SameRounded(reqs[r1], reqs'[Len(reqs) + 1])
           /\ now < reqs[r1].geoDoneAt + GEO_TTL_MS
           /\ \A r3 \in ReqIds \ {r1} :
                reqs[r3].geoFetched => ~SameRounded(reqs[r3], reqs[r1]))
          => /\ reqs'[Len(reqs) + 1].geo = reqs[r1].geo
             /\ ~reqs'[Len(reqs) + 1].geoFetched
             /\ reqs'[Len(reqs) + 1].pc = "model"
             /\ geoCache' = geoCache]_vars
  /\ [](\A r \in ReqIds : reqs[r].pc = "geo" => reqs[r].geoFetched)
  /\ [][\A r \in ReqIds : reqs'[r].geoFetched = reqs[r].geoFetched]_vars

\* a request at other coordinates with the same rounding was served the POIs
\* of the first request's fetch without a fetch of its own
C19_ServedFromCache ==
  \E r1 \in ReqIds : \E r2 \in ReqIds :
    /\ r1 < r2 /\ Built(reqs[r1])
    /\ reqs[r2].hasLoc /\ ~reqs[r2].geoFetched /\ reqs[r2].pc = "done"
    /\ reqs[r1].lat # reqs[r2].lat
    /\ reqs[r2].geo = reqs[r1].geo /\ Len(reqs[r2].geo.pois) > 0

\* C20: a call of getGeoContext that starts when GEO_TTL_MS has elapsed since
\* every fetch for its rounded coordinates returned issues a reverse-geocode
\* and a POI request of its own, swept entry or not; and when a fetching call
\* returns, the entry of its key holds its value and expires GEO_TTL_MS
\* later.
C20_ExpiredIsRefetched ==
  /\ [][(/\ Arrives(Len(reqs) + 1)
         /\ \E r1 \in ReqIds :
              Built(reqs[r1]) /\ SameRounded(reqs[r1], reqs'[Len(reqs) + 1])
         /\ \A r1 \in ReqIds :
              (reqs[r1].geoFetched /\ SameRounded(reqs[r1], reqs'[Len(reqs) + 1]))
              => (Built(reqs[r1]) /\ now >= reqs[r1].geoDoneAt + GEO_TTL_MS))
        => /\ reqs'[Len(reqs) + 1].pc = "geo"
           /\ reqs'[Len(reqs) + 1].geoFetched
           /\ reqs'[Len(reqs) + 1].rev = Pending
           /\ reqs'[Len(reqs) + 1].poiEp = 1]_vars
  /\ [][\A r \in ReqIds :
          (reqs[r].pc = "geo" /\ reqs'[r].pc = "model") =>
            LET k == <<(reqs[r].lat + 5) \div 10, (reqs[r].lon + 5) \div 10, SYNC_RADIUS_M>>
            IN /\ k \in DOMAIN geoCache'
               /\ geoCache'[k] = [value |-> reqs'[r].geo, expiresAt |-> now + GEO_TTL_MS]]_vars

\* a second fetch for the same rounded coordinates returned exactly
\* GEO_TTL_MS after the first (so it started with the old entry still in the
\* Map), and its entry is the cached one
C20_Refetched ==
  \E r1 \in ReqIds : \E r2 \in ReqIds :
    /\ r1 < r2 /\ Built(reqs[r1]) /\ Built(reqs[r2])
    /\ SameRounded(reqs[r1], reqs[r2])
    /\ reqs[r2].geoDoneAt = reqs[r1].geoDoneAt + GEO_TTL_MS
    /\ \E k \in DOMAIN geoCache :
         geoCache[k] = [value |-> reqs[r2].geo, expiresAt |-> reqs[r2].geoDoneAt + GEO_TTL_MS]

\* C21: a request of the sync iteration without finite lat and lon makes no
\* reverse-geocode and no POI request, gets no value from geoCache and
\* writes none (every change of an entry is made by a request with
\* coordinates that finishes its build), has the "Location is NOT available"
\* block in its prompt, and makes no repair call.
C21_NoLocationNoGeo ==
  /\ [](\A r \in ReqIds :
          ~reqs[r].hasLoc =>
            /\ reqs[r].pc \in {"model", "done"}
            /\ ~reqs[r].geoFetched /\ reqs[r].geoDoneAt = -1
            /\ reqs[r].rev = JSNull /\ reqs[r].poiRes = JSNull /\ reqs[r].poiEp = 0
            /\ reqs[r].geo = JSNull
            /\ LocationBlock(reqs[r].hasLoc, reqs[r].geo) = [available |-> FALSE]
            /\ reqs[r].repairCalls = 0 /\ reqs[r].repair = NoAnswer)
  /\ [][\A k \in DOMAIN geoCache' :
          (k \notin DOMAIN geoCache \/ geoCache'[k] # geoCache[k]) =>
            \E r \in ReqIds :
              /\ reqs[r].hasLoc /\ reqs[r].pc = "geo" /\ reqs'[r].pc = "model"
              /\ k = <<(reqs[r].lat + 5) \div 10, (reqs[r].lon + 5) \div 10, SYNC_RADIUS_M>>]_vars

\* a request without coordinates was answered from the primary answer alone
\* while geoCache held POIs for the very point its form named
C21_NoLocationAnswered ==
  \E r1 \in ReqIds : \E r2 \in ReqIds :
    /\ r1 < r2 /\ Built(reqs[r1]) /\ Len(reqs[r1].geo.pois) > 0
    /\ reqs[r2].lat = reqs[r1].lat /\ reqs[r2].lon = reqs[r1].lon
    /\ \E k \in DOMAIN geoCache : geoCache[k].value = reqs[r1].geo /\ now < geoCache[k].expiresAt
    /\ ~reqs[r2].hasLoc /\ reqs[r2].pc = "done" /\ reqs[r2].response.code = 200
    /\ reqs[r2].primary = AnsOther

\* the chat requests that got past the test of place
Asked == {c \in 1..Len(chats) : chats[c].prompt # JSNull}

\* the message of a chat request as the claim reads it: trimmed, in lower
\* case, "" when absent
Said(c) == ToLowerCase(TextField(chats[c].body, "message"))

C23_BadInputIs400 ==
  /\ [][\A hasFile \in BOOLEAN, hasLoc \in BOOLEAN :
          (PostLocateJob(hasFile, hasLoc) /\ ~(hasFile /\ hasLoc)) =>
            /\ lastPost'.code = 400
            /\ jobs' = jobs /\ locateJobs' = locateJobs /\ run' = run]_vars
  /\ [][\A hasLoc \in BOOLEAN, pt \in cfg.points, client \in cfg.clients :
          PostLocateSync(FALSE, hasLoc, pt, client) =>
            /\ reqs'[Len(reqs')].response.code = 400
            /\ reqs'[Len(reqs')].pc = "done"
            /\ geoCache' = geoCache]_vars
  /\ [](\A r \in ReqIds :
          reqs[r].response.code = 400 =>
            /\ ~reqs[r].geoFetched /\ reqs[r].geo = JSNull /\ reqs[r].pc = "done"
            /\ reqs[r].primary = NoAnswer /\ reqs[r].repairCalls = 0)
  /\ [](\A c \in 1..Len(chats) :
          TextField(chats[c].body, "place") = <<>> =>
            /\ chats[c].response.code = 400
            /\ chats[c].pc = "done" /\ chats[c].prompt = JSNull)

\* a job exists and the latest POST /api/locate was answered 400
C23_RejectedAfterJob == lastPost.code = 400 /\ Len(jobs) = 1 /\ run[1].pc = "immediate"

\* the elements of the answer that have a name and a coordinate, as the claims
\* read them: lower-case name and distance
Named(els) ==
  {[key |-> ToLowerCase(els[i].tags.name), distance_m |-> els[i].dist] :
     i \in {k \in 1..Len(els) : /\ "name" \in DOMAIN els[k].tags
                                /\ els[k].tags.name # <<>>
                                /\ els[k].coord # "none"}}

\* C24: no two POIs of the returned list have the same name in lower case,
\* and a returned POI is no farther than any element of the answer with the
\* same lower-case name.
C24_OnePerNameNearest ==
  LET ps == search.pois IN
  /\ \A i \in 1..Len(ps) : \A k \in 1..Len(ps) :
       i # k => ToLowerCase(ps[i].name) # ToLowerCase(ps[k].name)
  /\ \A i \in 1..Len(ps) :
       /\ [key |-> ToLowerCase(ps[i].name), distance_m |-> ps[i].distance_m]
            \in Named(search.elements)
       /\ \A e \in Named(search.elements) :
            e.key = ToLowerCase(ps[i].name) => ps[i].distance_m <= e.distance_m

\* the answer held one name in two spellings at two distances, the farther
\* first, and the list has the nearer one
C24_NearerSpellingKept ==
  /\ \E e \in Named(search.elements) : \E f \in Named(search.elements) :
       e.key = f.key /\ e.distance_m < f.distance_m
  /\ Len(search.elements) >= 2
  /\ search.elements[1].tags = [name |-> <<"L","o","u","v","r","e">>, tourism |-> "museum"]
  /\ \E i \in 1..Len(search.pois) :
       search.pois[i].name = <<"L","O","U","V","R","E">> /\ search.pois[i].distance_m = 300

\* C25: the returned list has at most POI_CAP entries, in non-decreasing
\* order of distance_m; a name of the answer that is not in the list is left
\* out only because the list is full, and is no nearer than any entry.
C25_CappedSortedNearest ==
  LET ps == search.pois IN
  /\ Len(ps) <= POI_CAP
  /\ \A i \in 1..(Len(ps) - 1) : ps[i].distance_m <= ps[i + 1].distance_m
  /\ \A e \in Named(search.elements) :
       (\A i \in 1..Len(ps) : ToLowerCase(ps[i].name) # e.key) =>
         /\ Len(ps) = POI_CAP
         /\ \A i \in 1..Len(ps) : ps[i].distance_m <= e.distance_m

\* more distinct names than the cap, given farthest first: the list is full
\* and a name was left out
C25_CapReached ==
  /\ Len(search.pois) = POI_CAP
  /\ Cardinality({e.key : e \in Named(search.elements)}) > POI_CAP
  /\ search.elements[1].dist > search.elements[2].dist

\* the POI queries a job has issued so far: one per overpass_start
Queries(j) ==
  Cardinality({i \in 1..Len(jobs[j].trace) : jobs[j].trace[i] = "overpass_start"})

\* C26: a job issues at most 3 POI queries; the k-th is at radius
\* OVERPASS_RADIUS_M * 2^(k-1); a further query is issued only by the step
\* in which the previous one returned fewer than POI_TARGET_COUNT POIs, and
\* the context handed to the model has the radius of the last query issued.
C26_WideningRadii ==
  /\ [](\A j \in JobIds :
          /\ Queries(j) <= 3
          /\ run[j].pc = "overpass" =>
               /\ Queries(j) >= 1 /\ run[j].rIdx = Queries(j)
               /\ Radii[run[j].rIdx] = OVERPASS_RADIUS_M * 2 ^ (Queries(j) - 1)
          /\ jobs[j].status = "openai" =>
               jobs[j].geo.radiusM = OVERPASS_RADIUS_M * 2 ^ (Queries(j) - 1))
  /\ [][\A j \in JobIds :
          Queries(j)' # Queries(j) =>
            /\ Queries(j)' = Queries(j) + 1 /\ run'[j].pc = "overpass"
            /\ Queries(j) >= 1 =>
                 /\ run[j].pc = "overpass"
                 /\ Len(run'[j].pois) < POI_TARGET_COUNT]_vars

\* three queries were issued, the third at four times the base radius still
\* returned fewer POIs than the target, and the job went on to the model
C26_AllRadiiTried ==
  \E j \in JobIds :
    /\ Queries(j) = 3 /\ jobs[j].status = "openai"
    /\ jobs[j].geo.radiusM = OVERPASS_RADIUS_M * 4
    /\ Len(jobs[j].geo.pois) < POI_TARGET_COUNT /\ Len(jobs[j].geo.pois) > 0

\* C27: while a POI query of a job is pending, one endpoint is contacted at
\* a time, starting with the first of the list; a failure moves to the next
\* endpoint of the same query without failing the job; a success ends the
\* query with the POIs of that answer (the next query, if any, starts again
\* at the first endpoint); the job fails in a query only when its last
\* endpoint failed, and then with the error of that endpoint.  In the sync
\* iteration the endpoints are walked in the same order.
C27_EndpointsInOrder ==
  /\ [](\A j \in JobIds : run[j].pc = "overpass" => run[j].ep \in 1..NumEndpoints)
  /\ [][\A j \in JobIds :
          (run[j].pc = "overpass" /\ <<run[j], jobs[j]>>' # <<run[j], jobs[j]>>) =>
            \/ /\ run'[j].pc = "overpass" /\ run'[j].rIdx = run[j].rIdx
               /\ run[j].ep < NumEndpoints /\ run'[j].ep = run[j].ep + 1
               /\ jobs'[j] = jobs[j]
            \/ \E els \in OverpassAnswers :
                 \/ /\ run'[j].pc = "overpass" /\ run'[j].rIdx = run[j].rIdx + 1
                    /\ run'[j].ep = 1 /\ run'[j].pois = PoisFromElements(els)
                 \/ /\ run'[j].pc = "openai"
                    /\ jobs'[j].geo.pois = PoisFromElements(els)
            \/ /\ run[j].ep = NumEndpoints
               /\ run'[j].pc = "finished" /\ jobs'[j].status = "error"
               /\ OverpassTimeout(j) => jobs'[j].error = ErrAbort
               /\ OverpassError(j, ErrOverpassHttp) => jobs'[j].error = ErrOverpassHttp
               /\ jobs'[j].error \in {ErrAbort, ErrOverpassHttp}]_vars
  /\ [](\A r \in ReqIds : reqs[r].poiRes = Pending => reqs[r].poiEp \in 1..NumEndpoints)
  /\ [][\A r \in ReqIds :
          (reqs[r].poiRes = Pending /\ reqs'[r].poiEp # reqs[r].poiEp) =>
            \/ reqs'[r].poiRes = Pending /\ reqs'[r].poiEp = reqs[r].poiEp + 1
            \/ reqs'[r].poiRes # Pending /\ reqs'[r].poiEp = 0]_vars

\* the second query of a job failed at its last endpoint by timeout, after
\* the first query had succeeded
C27_AllEndpointsFailed ==
  \E j \in JobIds :
    /\ jobs[j].status = "error" /\ jobs[j].error = ErrAbort
    /\ Queries(j) = 2
    /\ jobs[j].trace[Len(jobs[j].trace) - 1] = "overpass_start"

\* C28: when getGeoContext returns, whether because both calls settled or
\* because the deadline elapsed, its value holds the reverse-geocode result
\* if that call had settled, the POI list if that call had settled, and
\* defaults (all-null reverse, empty list) for a call still pending.
C28_DeadlineKeepsPartial ==
  [][\A r \in ReqIds :
       (reqs[r].pc = "geo" /\ reqs'[r].pc = "model") =>
         /\ reqs[r].rev # Pending => reqs'[r].geo.reverse = reqs[r].rev
         /\ reqs[r].poiRes # Pending => reqs'[r].geo.pois = reqs[r].poiRes.pois
         /\ (reqs[r].rev = Pending /\ reqs[r].poiRes = Pending) =>
              reqs'[r].geo = GeoValue(NullReverse, <<>>)]_vars

\* C29: in the step in which a geo-context build finishes (the sync
\* iteration's getGeoContext returns; the job iteration's radius loop ends
\* and the job moves on to the model), geoCache holds the built context
\* under a key of the rounded coordinates and the radius used, expiring
\* GEO_TTL_MS later.
C29_BuildIsCached ==
  /\ [][\A r \in ReqIds :
          (reqs[r].pc = "geo" /\ reqs'[r].pc = "model") =>
            LET k == <<(reqs[r].lat + 5) \div 10, (reqs[r].lon + 5) \div 10,
                       reqs'[r].geo.radiusM>>
            IN /\ k \in DOMAIN geoCache'
               /\ geoCache'[k] = [value |-> reqs'[r].geo, expiresAt |-> now + GEO_TTL_MS]]_vars
  /\ [][\A j \in JobIds :
          (jobs[j].status = "geo" /\ jobs'[j].status = "openai") =>
            \E k \in DOMAIN geoCache' :
              /\ k[3] = jobs'[j].geo.radiusM
              /\ geoCache'[k].value = jobs'[j].geo
              /\ geoCache'[k].expiresAt = now + GEO_TTL_MS]_vars

\* C30: when two requests have both fetched and finished a build for the
\* same rounded coordinates within GEO_TTL_MS of each other, the entry of
\* that key holds the value each of the two builds returned, so that the
\* content is the same whichever of them wrote last.
C30_RaceLeavesOneContent ==
  \A r1 \in ReqIds : \A r2 \in ReqIds :
    (/\ r1 # r2 /\ Built(reqs[r1]) /\ Built(reqs[r2])
     /\ SameRounded(reqs[r1], reqs[r2])
     /\ reqs[r2].geoDoneAt < reqs[r1].geoDoneAt + GEO_TTL_MS
     /\ reqs[r1].geoDoneAt < reqs[r2].geoDoneAt + GEO_TTL_MS)
    => \A k \in DOMAIN geoCache :
         (k[1] = (reqs[r1].lat + 5) \div 10 /\ k[2] = (reqs[r1].lon + 5) \div 10)
         => geoCache[k].value = reqs[r1].geo

\* the place of job j in runLocateJob: the await it is at
Place(j) == <<run[j].pc, run[j].rIdx, run[j].ep>>

\* what C31 compares of two jobs: status sequence, geo context, result,
\* error and trace
SameJob(a, b) ==
  /\ a.status = b.status /\ a.hist = b.hist /\ a.geo = b.geo
  /\ a.result = b.result /\ a.error = b.error /\ a.trace = b.trace

\* C31: jobs run independently. A step of one job's pipeline leaves every
\* other job's record and pipeline as they were; and with the upstream
\* answers fixed by the place in the pipeline, two jobs at the same place
\* have the same status sequence, geo context, result, error and trace,
\* however their steps were interleaved (a job that ran before the other
\* was created ran alone).
C31_JobsIndependent ==
  /\ [][\A j \in JobIds : \A k \in JobIds :
          (j # k /\ run'[j] # run[j]) => (jobs'[k] = jobs[k] /\ run'[k] = run[k])]_vars
  /\ [](\A j \in JobIds : \A k \in JobIds :
          Place(j) = Place(k) => SameJob(jobs[j], jobs[k]))

\* two jobs in flight together, one of them ahead of the other
C31_TwoInFlight ==
  /\ Len(jobs) = 2
  /\ run[1].pc = "overpass" /\ run[1].rIdx = 2
  /\ run[2].pc = "openai" /\ jobs[2].geo.radiusM = Radii[3]

\* the steps that may follow one another in a trace
TraceFollows ==
  {<<"geo_start", "reverse_done">>, <<"reverse_done", "overpass_start">>,
   <<"overpass_start", "overpass_done">>, <<"overpass_done", "overpass_start">>,
   <<"overpass_done", "openai_start">>, <<"openai_start", "openai_done">>}
  \cup {<<s, "error">> : s \in {"geo_start", "reverse_done", "overpass_start",
                                "overpass_done", "openai_start"}}

TraceInOrder(t) ==
  /\ (t # <<>> => t[1] = "geo_start")
  /\ \A i \in 1..(Len(t) - 1) : <<t[i], t[i + 1]>> \in TraceFollows

\* t is the last entries of u, in order, and at most TRACE_VIEW of them,
\* all of u when u has no more
IsRecentView(t, u) ==
  /\ Len(t) = (IF Len(u) > TRACE_VIEW THEN TRACE_VIEW ELSE Len(u))
  /\ \A i \in 1..Len(t) : t[i] = u[Len(u) - Len(t) + i]

\* a trace longer than the debug view shows, ending in t
Padded(t) == [i \in 1..TRACE_VIEW |-> "geo_start"] \o t

\* C32: a job's trace only grows; its entries follow the order geo_start,
\* reverse_done, one or more pairs of overpass_start and overpass_done,
\* openai_start, ended by openai_done or, from any stage, by error; the last
\* entry of a job in status done is openai_done and of a job in status error
\* is error; GET /debug/job answers with the most recent entries of the
\* trace, in order, at most 200 of them (no job has more than 200: the slice
\* is also tried on a trace padded to more than 200).
C32_TraceGrowsInOrder ==
  /\ [][\A j \in JobIds :
          /\ Len(jobs'[j].trace) >= Len(jobs[j].trace)
          /\ SubSeq(jobs'[j].trace, 1, Len(jobs[j].trace)) = jobs[j].trace]_vars
  /\ [](\A j \in JobIds :
          /\ TraceInOrder(jobs[j].trace)
          /\ (jobs[j].status = "done"
                => jobs[j].trace[Len(jobs[j].trace)] = "openai_done")
          /\ (jobs[j].status = "error" => jobs[j].trace[Len(jobs[j].trace)] = "error")
          /\ IsRecentView(SliceLast(Padded(jobs[j].trace), TRACE_VIEW),
                          Padded(jobs[j].trace)))
  /\ [][\A got \in DebugHeaders, id \in 1..MaxJobs :
          (DebugJob(got, id) /\ debug'[Len(debug')].response.code = 200)
            => IsRecentView(debug'[Len(debug')].response.trace, jobs[id].trace)]_vars

\* the debug view read of a job that is done after two POI queries
C32_DoneJobInspected ==
  \E d \in 1..Len(debug) :
    /\ debug[d].endpoint = "job" /\ debug[d].response.code = 200
    /\ debug[d].response.status = "done"
    /\ debug[d].response.trace =
         <<"geo_start", "reverse_done", "overpass_start", "overpass_done",
           "overpass_start", "overpass_done", "openai_start", "openai_done">>

\* the element has a name and a finite coordinate pair, its own or its center
NamedAndPlaced(el) ==
  /\ "name" \in DOMAIN el.tags /\ el.tags.name # <<>>
  /\ el.coord \in {"own", "center"}

RECURSIVE OnlyNamedAndPlaced(_)
OnlyNamedAndPlaced(els) ==
  IF els = <<>> THEN <<>>
  ELSE (IF NamedAndPlaced(Head(els)) THEN <<Head(els)>> ELSE <<>>)
       \o OnlyNamedAndPlaced(Tail(els))

\* C33: every POI of the returned list has the name and the distance of an
\* element of the answer that has a name and a coordinate, and the list is
\* the one the same answer gives without its other elements: an element
\* without a name or without a coordinate neither appears nor takes the
\* place of another one in the de-dupe or under the cap.
C33_OnlyNamedPlaced ==
  /\ \A i \in 1..Len(search.pois) :
       \E k \in 1..Len(search.elements) :
         /\ NamedAndPlaced(search.elements[k])
         /\ search.pois[i].name = search.elements[k].tags.name
         /\ search.pois[i].distance_m = search.elements[k].dist
  /\ search.pois = PoisFromElements(OnlyNamedAndPlaced(search.elements))

\* the answer held an element without a coordinate before one of the same
\* name that has one, and an element without a name; the list has the one
\* with the coordinate
C33_UnplacedBeforePlaced ==
  /\ Len(search.elements) = 3
  /\ search.elements[1].coord = "none" /\ search.elements[1].tags.name = ElEiffel.tags.name
  /\ search.elements[2] = ElEiffel
  /\ "name" \notin DOMAIN search.elements[3].tags
  /\ Len(search.pois) = 1 /\ search.pois[1].distance_m = ElEiffel.dist

\* a debug request that arrived while a token is configured, with a header
\* that is not the token
Unauthenticated(d) == cfg.debugToken # "" /\ d.got # cfg.debugToken

\* C34: when a debug token is configured, a debug request whose
\* x-debug-token header is not the token is answered 401 at once: its handler
\* is never at the await of an upstream probe or of the model, and its
\* response carries no job data.
C34_DebugGuarded ==
  \A d \in 1..Len(debug) :
    Unauthenticated(debug[d]) => (debug[d].pc = "done" /\ debug[d].response = Unauthorized)

\* the same for the endpoints of server.js alone, which all stand behind
\* requireDebugAuth
C34_ServerJsGuarded ==
  \A d \in 1..Len(debug) :
    (cfg.deployed = "job" /\ Unauthenticated(debug[d]))
      => (debug[d].pc = "done" /\ debug[d].response = Unauthorized)

\* server.js refused a request for the record of a stored job
C34_JobViewRefused ==
  \E d \in 1..Len(debug) :
    /\ cfg.deployed = "job" /\ Unauthenticated(debug[d])
    /\ debug[d].endpoint = "job" /\ locateJobs # {}

\* C35: in every state of a job, result is non-null exactly when status is
\* done, and error is non-null exactly when status is error.
C35_ResultErrorAgree ==
  \A j \in JobIds :
    /\ (jobs[j].result # JSNull) <=> (jobs[j].status = "done")
    /\ (jobs[j].error # Null) <=> (jobs[j].status = "error")

\* Date.now() - job.createdAt
Age(j) == now - jobs[j].createdAt

\* C36: a job whose age is at most JOB_TTL_MS is in the store and a read of
\* it is not answered 404; a job leaves the store only in a step of the
\* sweep and only when it is older than JOB_TTL_MS; and a job that is still
\* in the store is answered 200 whatever its age.
C36_RetrievableForTtl ==
  /\ [](\A j \in JobIds :
          /\ Age(j) <= JOB_TTL_MS => (j \in locateJobs /\ LocateResultView(j).code # 404)
          /\ j \in locateJobs => LocateResultView(j).code = 200)
  /\ [][\A j \in JobIds :
          (j \in locateJobs /\ j \notin locateJobs')
            => (SweepJobs /\ Age(j) > JOB_TTL_MS)]_vars

\* a finished job older than JOB_TTL_MS that no sweep has met yet: it is in
\* the store and a read of it is answered 200
C36_ReadableAtAndPastTtl ==
  \E j \in JobIds :
    /\ Age(j) > JOB_TTL_MS /\ j \in locateJobs
    /\ jobs[j].status = "done" /\ LocateResultView(j).code = 200

\* the awaits of runLocateJob in program order; a job at "nominatim" has
\* sent the primary reverse request, at "fallback" the fallback request, at
\* "overpass" the request of query rIdx to endpoint ep, at "openai" the model
\* call
Rank(pc) ==
  CASE pc = "immediate" -> 0 [] pc = "nominatim" -> 1 [] pc = "fallback" -> 2
    [] pc = "overpass" -> 3 [] pc = "openai" -> 4 [] pc = "finished" -> 5

\* r2 is a later await than r1
Later(r1, r2) ==
  \/ Rank(r2.pc) > Rank(r1.pc)
  \/ /\ r1.pc = "overpass" /\ r2.pc = "overpass"
     /\ \/ r2.rIdx > r1.rIdx
        \/ r2.rIdx = r1.rIdx /\ r2.ep > r1.ep

\* C37: a job only moves forward through its awaits, so it is at each of
\* them at most once: one primary and one fallback reverse request, POI
\* requests for query 1..3 and endpoint 1..3 only (at most 9), one model call.
\* The model call is made in the step that sets status openai and in no
\* other, so exactly once by a job that reaches status openai and never by a
\* job that failed in status geo.
C37_UpstreamBounded ==
  /\ [][\A j \in JobIds : run'[j] # run[j] => Later(run[j], run'[j])]_vars
  /\ [](\A j \in JobIds :
          /\ run[j].pc = "overpass" =>
               /\ run[j].rIdx \in 1..Len(Radii) /\ run[j].ep \in 1..NumEndpoints
               /\ Queries(j) = run[j].rIdx
          /\ Queries(j) <= Len(Radii)
          /\ Cardinality({i \in 1..Len(jobs[j].hist) : jobs[j].hist[i] = "openai"}) <= 1)
  /\ [][\A j \in JobIds :
          (run'[j].pc = "openai" /\ run[j].pc # "openai")
            <=> (jobs'[j].status = "openai" /\ jobs[j].status # "openai")]_vars

\* a job that needed the fallback provider and is at the third endpoint of
\* its third POI query
C37_LastEndpointOfLastQuery ==
  \E j \in JobIds :
    /\ run[j].pc = "overpass" /\ run[j].rIdx = Len(Radii) /\ run[j].ep = NumEndpoints
    /\ jobs[j].geo.reverse = ReverseFromFallback(BdcFull)

\* request r is answered in this step
Answered(r) == reqs[r].pc # "done" /\ reqs'[r].pc = "done"

\* the model answers of request r, primary and repair, that parsed
ParsedAnswers(req) == {a \in {req.primary, req.repair} : a.text = "json"}

\* C38: in the step that answers a locate request with candidates, the
\* client's entry of photoContextCache holds the photoContext of a model
\* answer of that request whose candidates are the ones returned. The step
\* that answers a locate request with an error writes nothing to
\* photoContextCache, and when that request is the client's only one, the
\* client has no entry afterwards, as it had none before.
C38_PhotoContextOfReturned ==
  /\ [][\A r \in ReqIds :
          (Answered(r) /\ reqs'[r].response.code = 200) =>
            \E a \in ParsedAnswers(reqs'[r]) :
              /\ "candidates" \in DOMAIN a.json
              /\ a.json.candidates = reqs'[r].response.candidates
              /\ "photoContext" \in DOMAIN a.json
              /\ reqs[r].client \in DOMAIN photoContextCache'
              /\ photoContextCache'[reqs[r].client].photoContext = a.json.photoContext]_vars
  /\ [][\A r \in ReqIds :
          (Answered(r) /\ reqs'[r].response.code # 200)
            => photoContextCache' = photoContextCache]_vars
  /\ [](\A r \in ReqIds :
          (/\ reqs[r].pc = "done" /\ reqs[r].response.code # 200
           /\ \A r2 \in ReqIds : r2 # r => reqs[r2].client # reqs[r].client)
            => reqs[r].client \notin DOMAIN photoContextCache)

\* a model answer of request r arrives in this step and carries a photo
\* context: the primary answer, or the repair answer
Stores(r, a) ==
  /\ \/ (reqs[r].primary = NoAnswer /\ reqs'[r].primary = a)
     \/ (reqs[r].repair = NoAnswer /\ reqs'[r].repair = a)
  /\ a.text = "json" /\ "photoContext" \in DOMAIN a.json /\ a.json.photoContext # ""

\* C39: a locate request is given a geoCache entry, and a chat request a
\* photoContextCache entry, only when Date.now() is not after the entry's
\* expiresAt, whether a sweep has run or not. An entry of photoContextCache
\* is written for a client only when a model answer of a locate request of
\* that client arrives, with that answer's photoContext and expiresAt 10
\* minutes later, and is otherwise only deleted, and only once expired; a
\* chat request reads the entry of its own client when there is one that has
\* not expired, and no photo context otherwise.
C39_CachesServeFresh ==
  /\ [][(Len(reqs') > Len(reqs)) =>
          LET q == reqs'[Len(reqs')]
              k == <<(q.lat + 5) \div 10, (q.lon + 5) \div 10, SYNC_RADIUS_M>>
          IN (q.geo # JSNull)
               => (/\ k \in DOMAIN geoCache /\ ~(now > geoCache[k].expiresAt)
                   /\ q.geo = geoCache[k].value)]_vars
  /\ [][(Len(chats') > Len(chats) /\ chats'[Len(chats')].prompt # JSNull) =>
          LET c == chats'[Len(chats')]
              fresh == /\ c.client \in DOMAIN photoContextCache
                       /\ ~(now > photoContextCache[c.client].expiresAt)
          IN c.prompt.photoContext =
               (IF fresh THEN photoContextCache[c.client].photoContext
                ELSE "(not available)")]_vars
  /\ [][\A r \in ReqIds : \A a \in cfg.answers :
          Stores(r, a) =>
            /\ reqs[r].client \in DOMAIN photoContextCache'
            /\ photoContextCache'[reqs[r].client] =
                 [photoContext |-> a.json.photoContext, expiresAt |-> now + PHOTO_TTL_MS]]_vars
  /\ [][\A c \in cfg.clients :
          \/ /\ c \in DOMAIN photoContextCache <=> c \in DOMAIN photoContextCache'
             /\ c \in DOMAIN photoContextCache => photoContextCache'[c] = photoContextCache[c]
          \/ \E r \in ReqIds : \E a \in cfg.answers : reqs[r].client = c /\ Stores(r, a)
          \/ /\ c \in DOMAIN photoContextCache /\ c \notin DOMAIN photoContextCache'
             /\ now > photoContextCache[c].expiresAt]_vars

\* two locate requests of one client stored different photo contexts, and a
\* chat request of that client, 15 minutes after the start, carries the
\* second one
C39_LatestContextRead ==
  /\ Len(reqs) = 2 /\ reqs[1].client = reqs[2].client
  /\ reqs[1].primary = AnsOther /\ reqs[1].repair = AnsOther
  /\ reqs[2].primary = AnsSub
  /\ now = 3 * TickMs
  /\ \E c \in 1..Len(chats) :
       /\ chats[c].client = reqs[2].client /\ chats[c].prompt # JSNull
       /\ chats[c].prompt.photoContext = AnsSub.json.photoContext

====
